---- MODULE Spec2Model ----
(***************************************************************************)
(* Hybrid Logical Clock (dldc-packages/hybrid-logical-clock).              *)
(*                                                                         *)
(* A clock instance (createHLC) owns one state cell, the last timestamp it *)
(* produced; send and receive replace it.  A timestamp is the record       *)
(* [ts, cl, id].  Strings are sequences of one-character strings, so that  *)
(* split, parseInt and the ISO-8601 date text are computed, not assumed.   *)
(*                                                                         *)
(* JavaScript numbers hold every integer up to 2^53; MAX_EPOCH is about    *)
(* 2.5 * 10^14.  A millisecond count n is therefore written as the pair    *)
(* <<n \div msPerDay, n % msPerDay>> (day number, millisecond of the day), *)
(* with <, max and subtraction defined on pairs.  Counters and maxDrift    *)
(* are plain integers.                                                     *)
(***************************************************************************)
EXTENDS Integers, Sequences, FiniteSets, TLC

VARIABLES
  state,     \* instance id -> the instance's state cell (closure variable `state`)
  maxDrift,  \* instance id -> the maxDrift option the instance was created with
  last,      \* the last call made: instance, operation, inputs, state before, result
  returned,  \* instance id -> the timestamps the instance has returned so far
  calls,     \* number of send/receive calls made so far
  events,    \* the successful calls of a run with several instances, in order
  past       \* instance id -> the events that happen-before its next event

vars == <<state, maxDrift, last, returned, calls, events, past>>

-----------------------------------------------------------------------------
(* Bounds of the model *)

\* wall-clock readings and remote physical times are 0, 1, ..., MaxTime seconds
MaxTime == 3
\* send/receive calls per behaviour of Spec
MaxCalls == 2
\* send/receive calls per behaviour of SpecHist, which logs what was returned
MaxHistCalls == 3
\* send/receive calls per behaviour of SpecNet
MaxNetCalls == 4

\* calls in a behaviour of SpecRestore, the lockstep calls counted once
MaxRestoreCalls == 3

\* calls in a behaviour of SpecBounds
MaxBoundCalls == 3

\* calls in a behaviour of SpecRecover
MaxRecoverCalls == 3

\* calls and caller's writes in a behaviour of SpecHeap
MaxHeapCalls == 3

\* calls started in a behaviour of SpecRace
MaxRaceCalls == 2

\* calls started in a behaviour of SpecSteps
MaxStepCalls == 2

\* calls in a behaviour of SpecSeed
MaxSeedCalls == 2

\* calls in a behaviour of SpecMono
MaxMonoCalls == 3

\* calls of toString and serializeHLC on one timestamp in SpecCache
MaxCacheCalls == 3

\* calls in progress at once in SpecSteps: a call, and one made from inside
\* its wall-clock callback
MaxDepth == 2

-----------------------------------------------------------------------------
(* defaults.ts *)

LOGICAL_CLOCK_LENGTH == 8

MAX_LOGICAL_CLOCK == 99999999

DEFAULT_MAX_DRIFT == 5 * 60 * 1000

msPerDay == 24 * 60 * 60 * 1000

\* 253402300799999 = 2932896 * msPerDay + 86399999
MAX_EPOCH == <<2932896, 86399999>>

-----------------------------------------------------------------------------
(* JavaScript numbers that hold millisecond counts *)

Num(n) == <<n \div msPerDay, n % msPerDay>>

NumLt(a, b) == a[1] < b[1] \/ (a[1] = b[1] /\ a[2] < b[2])

NumGt(a, b) == NumLt(b, a)

NumMax(a, b) == IF NumLt(a, b) THEN b ELSE a

\* a - b for a >= b
NumSub(a, b) ==
  IF a[2] >= b[2] THEN <<a[1] - b[1], a[2] - b[2]>>
  ELSE <<a[1] - b[1] - 1, a[2] + msPerDay - b[2]>>

\* Math.abs(a - b)
NumAbsDiff(a, b) == IF NumLt(a, b) THEN NumSub(b, a) ELSE NumSub(a, b)

-----------------------------------------------------------------------------
(* internal.ts, erreur.ts: values and errors *)

createHLCTimestamp(ts, cl, id) == [ts |-> ts, cl |-> cl, id |-> id]

\* a call that returns value t
Return(t) == [kind |-> "ok", t |-> t]

throwClockDriftOverflow(maxDriftOpt, drift) ==
  [kind |-> "ClockDriftOverflow", maxDrift |-> maxDriftOpt, drift |-> drift]

throwLogicalCounterOverflow(max, current) ==
  [kind |-> "LogicalCounterOverflow", max |-> max, current |-> current]

throwTimestampParsingError(input, message) ==
  [kind |-> "TimestampParsingError", input |-> input, message |-> message]

-----------------------------------------------------------------------------
(* Strings: sequences of one-character strings *)

Digits == <<"0", "1", "2", "3", "4", "5", "6", "7", "8", "9">>

IsDigit(c) == \E i \in 1..10 : Digits[i] = c

DigitValue(c) == (CHOOSE i \in 1..10 : Digits[i] = c) - 1

AllDigits(s) == \A i \in 1..Len(s) : IsDigit(s[i])

\* the decimal digits of n >= 0
RECURSIVE Decimal(_)
Decimal(n) ==
  IF n < 10 THEN <<Digits[n + 1]>>
  ELSE Decimal(n \div 10) \o <<Digits[(n % 10) + 1]>>

\* Number.prototype.toString of an integer
NumberToString(n) == IF n < 0 THEN <<"-">> \o Decimal(0 - n) ELSE Decimal(n)

\* String.prototype.padStart
RECURSIVE padStart(_, _, _)
padStart(s, targetLength, fill) ==
  IF Len(s) >= targetLength THEN s
  ELSE padStart(<<fill>> \o s, targetLength, fill)

\* the value of a sequence of digits
RECURSIVE DigitsValue(_)
DigitsValue(s) ==
  IF s = <<>> THEN 0
  ELSE DigitsValue(SubSeq(s, 1, Len(s) - 1)) * 10 + DigitValue(s[Len(s)])

\* String.prototype.split("|")
RECURSIVE SplitFrom(_, _, _)
SplitFrom(s, i, cur) ==
  IF i > Len(s) THEN <<cur>>
  ELSE IF s[i] = "|" THEN <<cur>> \o SplitFrom(s, i + 1, <<>>)
  ELSE SplitFrom(s, i + 1, Append(cur, s[i]))

split(s) == SplitFrom(s, 1, <<>>)

\* UTF-16 code units of the characters the model's strings are made of
CodeUnits ==
  { <<"\t", 9>>, <<"\n", 10>>, <<"\r", 13>>, <<" ", 32>>, <<"*", 42>>, <<"+", 43>>,
    <<"-", 45>>, <<".", 46>>, <<"0", 48>>, <<"1", 49>>, <<"2", 50>>, <<"3", 51>>,
    <<"4", 52>>, <<"5", 53>>, <<"6", 54>>, <<"7", 55>>, <<"8", 56>>, <<"9", 57>>,
    <<":", 58>>, <<"T", 84>>, <<"Z", 90>>, <<"a", 97>>, <<"b", 98>>, <<"c", 99>>,
    <<"d", 100>>, <<"e", 101>>, <<"f", 102>>, <<"i", 105>>, <<"l", 108>>,
    <<"m", 109>>, <<"n", 110>>, <<"o", 111>>, <<"r", 114>>, <<"t", 116>>,
    <<"u", 117>>, <<"v", 118>>, <<"x", 120>>, <<"|", 124>> }

charCodeAt(c) == (CHOOSE p \in CodeUnits : p[1] = c)[2]

\* a < b, a = b, a > b on strings (code unit by code unit; a proper prefix is
\* smaller) as -1, 0, 1
RECURSIVE StringCompareFrom(_, _, _)
StringCompareFrom(a, b, i) ==
  IF i > Len(a) /\ i > Len(b) THEN 0
  ELSE IF i > Len(a) THEN 0 - 1
  ELSE IF i > Len(b) THEN 1
  ELSE IF charCodeAt(a[i]) < charCodeAt(b[i]) THEN 0 - 1
  ELSE IF charCodeAt(a[i]) > charCodeAt(b[i]) THEN 1
  ELSE StringCompareFrom(a, b, i + 1)

StringCompare(a, b) == StringCompareFrom(a, b, 1)

-----------------------------------------------------------------------------
(* Date: the proleptic Gregorian calendar of ECMAScript *)

\* day number (days since 1970-01-01) of year y, month m (1..12), day d
DayFromCivil(y, m, d) ==
  LET yy  == IF m <= 2 THEN y - 1 ELSE y
      era == yy \div 400
      yoe == yy - era * 400
      mp  == IF m > 2 THEN m - 3 ELSE m + 9
      doy == (153 * mp + 2) \div 5 + d - 1
      doe == yoe * 365 + yoe \div 4 - yoe \div 100 + doy
  IN era * 146097 + doe - 719468

\* [y, m, d] of a day number
CivilFromDay(day) ==
  LET z   == day + 719468
      era == z \div 146097
      doe == z - era * 146097
      yoe == (doe - doe \div 1460 + doe \div 36524 - doe \div 146096) \div 365
      doy == doe - (365 * yoe + yoe \div 4 - yoe \div 100)
      mp  == (5 * doy + 2) \div 153
      d   == doy - (153 * mp + 2) \div 5 + 1
      m   == IF mp < 10 THEN mp + 3 ELSE mp - 9
      y   == yoe + era * 400 + (IF m <= 2 THEN 1 ELSE 0)
  IN [y |-> y, m |-> m, d |-> d]

IsLeapYear(y) == (y % 4 = 0 /\ y % 100 # 0) \/ y % 400 = 0

DaysInMonth(y, m) ==
  IF m = 2 THEN (IF IsLeapYear(y) THEN 29 ELSE 28)
  ELSE IF m \in {4, 6, 9, 11} THEN 30 ELSE 31

Pad(n, width) == padStart(Decimal(n), width, "0")

\* Date.prototype.toISOString of the time value ts
toISOString(ts) ==
  LET c    == CivilFromDay(ts[1])
      ms   == ts[2]
      year == IF c.y >= 0 /\ c.y <= 9999 THEN Pad(c.y, 4)
              ELSE IF c.y < 0 THEN <<"-">> \o Pad(0 - c.y, 6)
              ELSE <<"+">> \o Pad(c.y, 6)
  IN year \o <<"-">> \o Pad(c.m, 2) \o <<"-">> \o Pad(c.d, 2) \o <<"T">>
       \o Pad(ms \div 3600000, 2) \o <<":">> \o Pad((ms \div 60000) % 60, 2)
       \o <<":">> \o Pad((ms \div 1000) % 60, 2) \o <<".">> \o Pad(ms % 1000, 3)
       \o <<"Z">>

NaN == [nan |-> TRUE]

Number(v) == [nan |-> FALSE, v |-> v]

\* the time value of YYYY-MM-DDTHH:mm:ss.sssZ, given the year's digits and
\* the 20 characters that follow them
DateTimeValue(sign, yearDigits, rest) ==
  LET y  == sign * DigitsValue(yearDigits)
      mo == DigitsValue(SubSeq(rest, 2, 3))
      d  == DigitsValue(SubSeq(rest, 5, 6))
      h  == DigitsValue(SubSeq(rest, 8, 9))
      mi == DigitsValue(SubSeq(rest, 11, 12))
      sc == DigitsValue(SubSeq(rest, 14, 15))
      ms == DigitsValue(SubSeq(rest, 17, 19))
      shape ==
        /\ Len(rest) = 20
        /\ rest[1] = "-" /\ rest[4] = "-" /\ rest[7] = "T" /\ rest[10] = ":"
        /\ rest[13] = ":" /\ rest[16] = "." /\ rest[20] = "Z"
        /\ AllDigits(yearDigits)
        /\ \A i \in {2, 3, 5, 6, 8, 9, 11, 12, 14, 15, 17, 18, 19} : IsDigit(rest[i])
  IN IF ~shape THEN NaN
     ELSE IF mo < 1 \/ mo > 12 \/ d < 1 \/ d > DaysInMonth(y, mo) THEN NaN
     ELSE IF h > 24 \/ mi > 59 \/ sc > 59 THEN NaN
     ELSE IF h = 24 /\ (mi > 0 \/ sc > 0 \/ ms > 0) THEN NaN
     ELSE IF h = 24 THEN Number(<<DayFromCivil(y, mo, d) + 1, 0>>)
     ELSE Number(<<DayFromCivil(y, mo, d),
                   h * 3600000 + mi * 60000 + sc * 1000 + ms>>)

\* new Date(dateStr).getTime() for the Date Time String Format: the date-time
\* form toISOString writes, YYYY-MM-DDTHH:mm:ss.sssZ, with a four-digit or an
\* expanded year (+YYYYYY / -YYYYYY), and the date-only form YYYY-MM-DD, which
\* is midnight UTC.  Text that is no date at all gives NaN.
DateParse(s) ==
  IF Len(s) = 24 THEN DateTimeValue(1, SubSeq(s, 1, 4), SubSeq(s, 5, 24))
  ELSE IF Len(s) = 10
    THEN DateTimeValue(1, SubSeq(s, 1, 4),
           SubSeq(s, 5, 10) \o <<"T", "0", "0", ":", "0", "0", ":", "0", "0", ".",
                                  "0", "0", "0", "Z">>)
  ELSE IF Len(s) = 27 /\ s[1] = "+"
    THEN DateTimeValue(1, SubSeq(s, 2, 7), SubSeq(s, 8, 27))
  ELSE IF Len(s) = 27 /\ s[1] = "-" /\ SubSeq(s, 2, 7) # <<"0", "0", "0", "0", "0", "0">>
    THEN DateTimeValue(0 - 1, SubSeq(s, 2, 7), SubSeq(s, 8, 27))
  ELSE NaN

\* StrWhiteSpaceChar
IsWhiteSpace(c) == c \in {" ", "\t", "\n", "\r"}

\* digits of s from position i on, accumulated; values above
\* MAX_LOGICAL_CLOCK stay above it and are not accumulated further
RECURSIVE ParseDigits(_, _, _)
ParseDigits(s, i, acc) ==
  IF i > Len(s) \/ ~IsDigit(s[i]) THEN acc
  ELSE ParseDigits(s, i + 1,
         IF acc > MAX_LOGICAL_CLOCK THEN acc ELSE acc * 10 + DigitValue(s[i]))

RECURSIVE SkipWhiteSpace(_, _)
SkipWhiteSpace(s, i) ==
  IF i <= Len(s) /\ IsWhiteSpace(s[i]) THEN SkipWhiteSpace(s, i + 1) ELSE i

\* parseInt(s, 10)
parseInt(s) ==
  LET i    == SkipWhiteSpace(s, 1)
      sign == IF i <= Len(s) /\ s[i] = "-" THEN 0 - 1 ELSE 1
      j    == IF i <= Len(s) /\ s[i] \in {"-", "+"} THEN i + 1 ELSE i
  IN IF j > Len(s) \/ ~IsDigit(s[j]) THEN NaN
     ELSE Number(sign * ParseDigits(s, j, 0))

-----------------------------------------------------------------------------
(* internal.ts: serialize; hlc.ts: the value type *)

\* mutant: the counter is written without padding
serialize_Unpadded(ts, cl, id) ==
  LET dateStr == toISOString(ts)
      clStr   == NumberToString(cl)
  IN dateStr \o <<"|">> \o clStr \o <<"|">> \o id

serialize(ts, cl, id) ==
  LET dateStr == toISOString(ts)
      clStr   == padStart(NumberToString(cl), LOGICAL_CLOCK_LENGTH, "0")
  IN dateStr \o <<"|">> \o clStr \o <<"|">> \o id

\* hlc.toString(): the cached string is serialize(ts, cl, id)
serializeHLC(hlc) == serialize(hlc.ts, hlc.cl, hlc.id)

\* mutant: a tie on (ts, cl) is broken by the node id
compareHLCTimestamps_IdTieBreak(t1, t2) ==
  IF NumLt(t1.ts, t2.ts) THEN 0 - 1
  ELSE IF NumGt(t1.ts, t2.ts) THEN 1
  ELSE IF t1.cl < t2.cl THEN 0 - 1
  ELSE IF t1.cl > t2.cl THEN 1
  ELSE StringCompare(t1.id, t2.id)

\* mutant: the branch for a greater counter is missing
compareHLCTimestamps_NoGreaterCounter(t1, t2) ==
  IF NumLt(t1.ts, t2.ts) THEN 0 - 1
  ELSE IF NumGt(t1.ts, t2.ts) THEN 1
  ELSE IF t1.cl < t2.cl THEN 0 - 1
  ELSE 0

compareHLCTimestamps(t1, t2) ==
  IF NumLt(t1.ts, t2.ts) THEN 0 - 1
  ELSE IF NumGt(t1.ts, t2.ts) THEN 1
  ELSE IF t1.cl < t2.cl THEN 0 - 1
  ELSE IF t1.cl > t2.cl THEN 1
  ELSE 0

\* mutant: the counter is validated before the date
parseHLCTimestampStrict_CounterBeforeDate(hlcString) ==
  LET parts   == split(hlcString)
      dateStr == parts[1]
      clStr   == parts[2]
      id      == parts[3]
      ts      == DateParse(dateStr)
      cl      == parseInt(clStr)
  IN IF Len(parts) # 3
       THEN throwTimestampParsingError(hlcString,
              "Invalid format, expected ISO8601|logicalCounter|nodeId")
     ELSE IF Len(id) < 1
       THEN throwTimestampParsingError(hlcString, "Invalid nodeId")
     ELSE IF cl.nan \/ cl.v < 0 \/ cl.v > MAX_LOGICAL_CLOCK
       THEN throwTimestampParsingError(hlcString, "Invalid logical counter")
     ELSE IF ts.nan \/ NumLt(ts.v, Num(0)) \/ NumGt(ts.v, MAX_EPOCH)
       THEN throwTimestampParsingError(hlcString, "Invalid timestamp")
     ELSE Return(createHLCTimestamp(ts.v, cl.v, id))

\* mutant: the counter MAX_LOGICAL_CLOCK is out of range
parseHLCTimestampStrict_CounterBelowMax(hlcString) ==
  LET parts   == split(hlcString)
      dateStr == parts[1]
      clStr   == parts[2]
      id      == parts[3]
      ts      == DateParse(dateStr)
      cl      == parseInt(clStr)
  IN IF Len(parts) # 3
       THEN throwTimestampParsingError(hlcString,
              "Invalid format, expected ISO8601|logicalCounter|nodeId")
     ELSE IF Len(id) < 1
       THEN throwTimestampParsingError(hlcString, "Invalid nodeId")
     ELSE IF ts.nan \/ NumLt(ts.v, Num(0)) \/ NumGt(ts.v, MAX_EPOCH)
       THEN throwTimestampParsingError(hlcString, "Invalid timestamp")
     ELSE IF cl.nan \/ cl.v < 0 \/ cl.v >= MAX_LOGICAL_CLOCK
       THEN throwTimestampParsingError(hlcString, "Invalid logical counter")
     ELSE Return(createHLCTimestamp(ts.v, cl.v, id))

parseHLCTimestampStrict(hlcString) ==
  LET parts   == split(hlcString)
      dateStr == parts[1]
      clStr   == parts[2]
      id      == parts[3]
      ts      == DateParse(dateStr)
      cl      == parseInt(clStr)
  IN IF Len(parts) # 3
       THEN throwTimestampParsingError(hlcString,
              "Invalid format, expected ISO8601|logicalCounter|nodeId")
     ELSE IF Len(id) < 1
       THEN throwTimestampParsingError(hlcString, "Invalid nodeId")
     ELSE IF ts.nan \/ NumLt(ts.v, Num(0)) \/ NumGt(ts.v, MAX_EPOCH)
       THEN throwTimestampParsingError(hlcString, "Invalid timestamp")
     ELSE IF cl.nan \/ cl.v < 0 \/ cl.v > MAX_LOGICAL_CLOCK
       THEN throwTimestampParsingError(hlcString, "Invalid logical counter")
     ELSE Return(createHLCTimestamp(ts.v, cl.v, id))

\* mutant: only the wrong field count gives null, other errors are thrown on
parseHLCTimestamp_CatchesFormatOnly(hlcString) ==
  LET r == parseHLCTimestampStrict(hlcString)
  IN IF r.kind = "ok" THEN r
     ELSE IF Len(split(hlcString)) # 3 THEN [kind |-> "null"]
     ELSE r

\* null is [kind |-> "null"]
parseHLCTimestamp(hlcString) ==
  LET r == parseHLCTimestampStrict(hlcString)
  IN IF r.kind = "ok" THEN r ELSE [kind |-> "null"]

\* a string argument is [str |-> characters]; a timestamp is [ts, cl, id]
String(s) == [str |-> s]

IsString(x) == "str" \in DOMAIN x

toHLCTimestamp(hlc) ==
  IF IsString(hlc) THEN parseHLCTimestampStrict(hlc.str) ELSE Return(hlc)

-----------------------------------------------------------------------------
(* hlc.ts: createHLC.  The closure variables maxDrift and nodeId are       *)
(* parameters here; send and receive give [ret, state]: what the call      *)
(* returns or throws, and the state cell when the call ends.               *)

\* mutant: a drift equal to maxDrift is rejected too
createSafeHLCTimestamp_DriftGe(tsNow, ts, cl, maxDriftOpt, nodeId) ==
  LET drift == NumAbsDiff(tsNow, ts)
  IN IF ~NumLt(drift, Num(maxDriftOpt))
       THEN throwClockDriftOverflow(maxDriftOpt, drift)
     ELSE IF cl >= MAX_LOGICAL_CLOCK
       THEN throwLogicalCounterOverflow(MAX_LOGICAL_CLOCK, cl)
     ELSE Return(createHLCTimestamp(ts, cl, nodeId))

\* mutant: a counter equal to MAX_LOGICAL_CLOCK is accepted
createSafeHLCTimestamp_CounterGt(tsNow, ts, cl, maxDriftOpt, nodeId) ==
  LET drift == NumAbsDiff(tsNow, ts)
  IN IF NumGt(drift, Num(maxDriftOpt))
       THEN throwClockDriftOverflow(maxDriftOpt, drift)
     ELSE IF cl > MAX_LOGICAL_CLOCK
       THEN throwLogicalCounterOverflow(MAX_LOGICAL_CLOCK, cl)
     ELSE Return(createHLCTimestamp(ts, cl, nodeId))

\* mutant: the counter is checked before the drift
createSafeHLCTimestamp_CounterFirst(tsNow, ts, cl, maxDriftOpt, nodeId) ==
  LET drift == NumAbsDiff(tsNow, ts)
  IN IF cl >= MAX_LOGICAL_CLOCK
       THEN throwLogicalCounterOverflow(MAX_LOGICAL_CLOCK, cl)
     ELSE IF NumGt(drift, Num(maxDriftOpt))
       THEN throwClockDriftOverflow(maxDriftOpt, drift)
     ELSE Return(createHLCTimestamp(ts, cl, nodeId))

\* mutant: the counter is not checked
createSafeHLCTimestamp_NoCounterCheck(tsNow, ts, cl, maxDriftOpt, nodeId) ==
  LET drift == NumAbsDiff(tsNow, ts)
  IN IF NumGt(drift, Num(maxDriftOpt))
       THEN throwClockDriftOverflow(maxDriftOpt, drift)
     ELSE Return(createHLCTimestamp(ts, cl, nodeId))

createSafeHLCTimestamp(tsNow, ts, cl, maxDriftOpt, nodeId) ==
  LET drift == NumAbsDiff(tsNow, ts)
  IN IF NumGt(drift, Num(maxDriftOpt))
       THEN throwClockDriftOverflow(maxDriftOpt, drift)
     ELSE IF cl >= MAX_LOGICAL_CLOCK
       THEN throwLogicalCounterOverflow(MAX_LOGICAL_CLOCK, cl)
     ELSE Return(createHLCTimestamp(ts, cl, nodeId))

\* Math.max of two counters
Max(a, b) == IF a < b THEN b ELSE a

\* return (state = e): the assignment happens only if e does not throw
Assign(st, r) == [ret |-> r, state |-> IF r.kind = "ok" THEN r.t ELSE st]

\* mutant: any wall-clock reading other than the state's restarts the counter
send_FollowsWallClock(st, tsNow, maxDriftOpt, nodeId) ==
  IF tsNow # st.ts
    THEN Assign(st, createSafeHLCTimestamp(tsNow, tsNow, 0, maxDriftOpt, nodeId))
  ELSE Assign(st, createSafeHLCTimestamp(tsNow, st.ts, st.cl + 1, maxDriftOpt, nodeId))

\* mutant: an advancing wall clock keeps counting
send_KeepsCounter(st, tsNow, maxDriftOpt, nodeId) ==
  IF NumGt(tsNow, st.ts)
    THEN Assign(st, createSafeHLCTimestamp(tsNow, tsNow, st.cl + 1, maxDriftOpt, nodeId))
  ELSE Assign(st, createSafeHLCTimestamp(tsNow, st.ts, st.cl + 1, maxDriftOpt, nodeId))

\* mutant: the state cell is written before the safety check
send_AssignsFirst(st, tsNow, maxDriftOpt, nodeId) ==
  LET ts == IF NumGt(tsNow, st.ts) THEN tsNow ELSE st.ts
      cl == IF NumGt(tsNow, st.ts) THEN 0 ELSE st.cl + 1
  IN [ret   |-> createSafeHLCTimestamp(tsNow, ts, cl, maxDriftOpt, nodeId),
      state |-> createHLCTimestamp(ts, cl, nodeId)]

send(st, tsNow, maxDriftOpt, nodeId) ==
  IF NumGt(tsNow, st.ts)
    THEN Assign(st, createSafeHLCTimestamp(tsNow, tsNow, 0, maxDriftOpt, nodeId))
  ELSE Assign(st, createSafeHLCTimestamp(tsNow, st.ts, st.cl + 1, maxDriftOpt, nodeId))

\* mutant: on a tie of local and remote physical time the local counter counts
receive_LocalCounter(st, tsNow, remoteTimestamp, maxDriftOpt, nodeId) ==
  LET parsed      == toHLCTimestamp(remoteTimestamp)
      remote      == parsed.t
      ptLocalLast == st.ts
      lLocalLast  == st.cl
      ptRemote    == remote.ts
      lRemote     == remote.cl
      newPt       == NumMax(NumMax(tsNow, ptLocalLast), ptRemote)
  IN IF parsed.kind # "ok" THEN [ret |-> parsed, state |-> st]
     ELSE IF newPt = ptLocalLast /\ newPt = ptRemote
       THEN Assign(st, createSafeHLCTimestamp(tsNow, newPt,
                         lLocalLast + 1, maxDriftOpt, nodeId))
     ELSE IF newPt = ptLocalLast
       THEN Assign(st, createSafeHLCTimestamp(tsNow, newPt, lLocalLast + 1,
                         maxDriftOpt, nodeId))
     ELSE IF newPt = ptRemote
       THEN Assign(st, createSafeHLCTimestamp(tsNow, newPt, lRemote + 1,
                         maxDriftOpt, nodeId))
     ELSE Assign(st, createSafeHLCTimestamp(tsNow, newPt, 0, maxDriftOpt, nodeId))

\* mutant: the wall clock is left out of the maximum
receive_WithoutNow(st, tsNow, remoteTimestamp, maxDriftOpt, nodeId) ==
  LET parsed      == toHLCTimestamp(remoteTimestamp)
      remote      == parsed.t
      ptLocalLast == st.ts
      lLocalLast  == st.cl
      ptRemote    == remote.ts
      lRemote     == remote.cl
      newPt       == NumMax(ptLocalLast, ptRemote)
  IN IF parsed.kind # "ok" THEN [ret |-> parsed, state |-> st]
     ELSE IF newPt = ptLocalLast /\ newPt = ptRemote
       THEN Assign(st, createSafeHLCTimestamp(tsNow, newPt,
                         Max(lLocalLast, lRemote) + 1, maxDriftOpt, nodeId))
     ELSE IF newPt = ptLocalLast
       THEN Assign(st, createSafeHLCTimestamp(tsNow, newPt, lLocalLast + 1,
                         maxDriftOpt, nodeId))
     ELSE IF newPt = ptRemote
       THEN Assign(st, createSafeHLCTimestamp(tsNow, newPt, lRemote + 1,
                         maxDriftOpt, nodeId))
     ELSE Assign(st, createSafeHLCTimestamp(tsNow, newPt, 0, maxDriftOpt, nodeId))

\* mutant: the result keeps the remote timestamp's id
receive_RemoteId(st, tsNow, remoteTimestamp, maxDriftOpt, nodeId) ==
  LET parsed      == toHLCTimestamp(remoteTimestamp)
      remote      == parsed.t
      ptLocalLast == st.ts
      lLocalLast  == st.cl
      ptRemote    == remote.ts
      lRemote     == remote.cl
      newPt       == NumMax(NumMax(tsNow, ptLocalLast), ptRemote)
  IN IF parsed.kind # "ok" THEN [ret |-> parsed, state |-> st]
     ELSE IF newPt = ptLocalLast /\ newPt = ptRemote
       THEN Assign(st, createSafeHLCTimestamp(tsNow, newPt,
                         Max(lLocalLast, lRemote) + 1, maxDriftOpt, remote.id))
     ELSE IF newPt = ptLocalLast
       THEN Assign(st, createSafeHLCTimestamp(tsNow, newPt, lLocalLast + 1,
                         maxDriftOpt, remote.id))
     ELSE IF newPt = ptRemote
       THEN Assign(st, createSafeHLCTimestamp(tsNow, newPt, lRemote + 1,
                         maxDriftOpt, remote.id))
     ELSE Assign(st, createSafeHLCTimestamp(tsNow, newPt, 0, maxDriftOpt, remote.id))

\* mutant: on a tie of local and remote physical time the remote counter counts
receive_RemoteCounter(st, tsNow, remoteTimestamp, maxDriftOpt, nodeId) ==
  LET parsed      == toHLCTimestamp(remoteTimestamp)
      remote      == parsed.t
      ptLocalLast == st.ts
      lLocalLast  == st.cl
      ptRemote    == remote.ts
      lRemote     == remote.cl
      newPt       == NumMax(NumMax(tsNow, ptLocalLast), ptRemote)
  IN IF parsed.kind # "ok" THEN [ret |-> parsed, state |-> st]
     ELSE IF newPt = ptLocalLast /\ newPt = ptRemote
       THEN Assign(st, createSafeHLCTimestamp(tsNow, newPt,
                         lRemote + 1, maxDriftOpt, nodeId))
     ELSE IF newPt = ptLocalLast
       THEN Assign(st, createSafeHLCTimestamp(tsNow, newPt, lLocalLast + 1,
                         maxDriftOpt, nodeId))
     ELSE IF newPt = ptRemote
       THEN Assign(st, createSafeHLCTimestamp(tsNow, newPt, lRemote + 1,
                         maxDriftOpt, nodeId))
     ELSE Assign(st, createSafeHLCTimestamp(tsNow, newPt, 0, maxDriftOpt, nodeId))

\* mutant: a string is decoded leniently and null is handed back
receive_LenientString(st, tsNow, remoteTimestamp, maxDriftOpt, nodeId) ==
  LET parsed      == IF IsString(remoteTimestamp)
                       THEN parseHLCTimestamp(remoteTimestamp.str)
                       ELSE Return(remoteTimestamp)
      remote      == parsed.t
      ptLocalLast == st.ts
      lLocalLast  == st.cl
      ptRemote    == remote.ts
      lRemote     == remote.cl
      newPt       == NumMax(NumMax(tsNow, ptLocalLast), ptRemote)
  IN IF parsed.kind # "ok" THEN [ret |-> parsed, state |-> st]
     ELSE IF newPt = ptLocalLast /\ newPt = ptRemote
       THEN Assign(st, createSafeHLCTimestamp(tsNow, newPt,
                         Max(lLocalLast, lRemote) + 1, maxDriftOpt, nodeId))
     ELSE IF newPt = ptLocalLast
       THEN Assign(st, createSafeHLCTimestamp(tsNow, newPt, lLocalLast + 1,
                         maxDriftOpt, nodeId))
     ELSE IF newPt = ptRemote
       THEN Assign(st, createSafeHLCTimestamp(tsNow, newPt, lRemote + 1,
                         maxDriftOpt, nodeId))
     ELSE Assign(st, createSafeHLCTimestamp(tsNow, newPt, 0, maxDriftOpt, nodeId))

\* mutant: receive hands the merged physical time to the safety check as the
\* wall-clock reading
receive_NoDrift(st, tsNow, remoteTimestamp, maxDriftOpt, nodeId) ==
  LET parsed      == toHLCTimestamp(remoteTimestamp)
      remote      == parsed.t
      ptLocalLast == st.ts
      lLocalLast  == st.cl
      ptRemote    == remote.ts
      lRemote     == remote.cl
      newPt       == NumMax(NumMax(tsNow, ptLocalLast), ptRemote)
  IN IF parsed.kind # "ok" THEN [ret |-> parsed, state |-> st]
     ELSE IF newPt = ptLocalLast /\ newPt = ptRemote
       THEN Assign(st, createSafeHLCTimestamp(newPt, newPt,
                         Max(lLocalLast, lRemote) + 1, maxDriftOpt, nodeId))
     ELSE IF newPt = ptLocalLast
       THEN Assign(st, createSafeHLCTimestamp(newPt, newPt, lLocalLast + 1,
                         maxDriftOpt, nodeId))
     ELSE IF newPt = ptRemote
       THEN Assign(st, createSafeHLCTimestamp(newPt, newPt, lRemote + 1,
                         maxDriftOpt, nodeId))
     ELSE Assign(st, createSafeHLCTimestamp(newPt, newPt, 0, maxDriftOpt, nodeId))

\* mutant: the counter of a remote behind the state counts as well
receive_PastRemoteCounter(st, tsNow, remoteTimestamp, maxDriftOpt, nodeId) ==
  LET parsed      == toHLCTimestamp(remoteTimestamp)
      remote      == parsed.t
      ptLocalLast == st.ts
      lLocalLast  == st.cl
      ptRemote    == remote.ts
      lRemote     == remote.cl
      newPt       == NumMax(NumMax(tsNow, ptLocalLast), ptRemote)
  IN IF parsed.kind # "ok" THEN [ret |-> parsed, state |-> st]
     ELSE IF newPt = ptLocalLast
       THEN Assign(st, createSafeHLCTimestamp(tsNow, newPt,
                         Max(lLocalLast, lRemote) + 1, maxDriftOpt, nodeId))
     ELSE IF newPt = ptRemote
       THEN Assign(st, createSafeHLCTimestamp(tsNow, newPt, lRemote + 1,
                         maxDriftOpt, nodeId))
     ELSE Assign(st, createSafeHLCTimestamp(tsNow, newPt, 0, maxDriftOpt, nodeId))

receive(st, tsNow, remoteTimestamp, maxDriftOpt, nodeId) ==
  LET parsed      == toHLCTimestamp(remoteTimestamp)
      remote      == parsed.t
      ptLocalLast == st.ts
      lLocalLast  == st.cl
      ptRemote    == remote.ts
      lRemote     == remote.cl
      newPt       == NumMax(NumMax(tsNow, ptLocalLast), ptRemote)
  IN IF parsed.kind # "ok" THEN [ret |-> parsed, state |-> st]
     ELSE IF newPt = ptLocalLast /\ newPt = ptRemote
       THEN Assign(st, createSafeHLCTimestamp(tsNow, newPt,
                         Max(lLocalLast, lRemote) + 1, maxDriftOpt, nodeId))
     ELSE IF newPt = ptLocalLast
       THEN Assign(st, createSafeHLCTimestamp(tsNow, newPt, lLocalLast + 1,
                         maxDriftOpt, nodeId))
     ELSE IF newPt = ptRemote
       THEN Assign(st, createSafeHLCTimestamp(tsNow, newPt, lRemote + 1,
                         maxDriftOpt, nodeId))
     ELSE Assign(st, createSafeHLCTimestamp(tsNow, newPt, 0, maxDriftOpt, nodeId))

\* options.name, or the default when the option is not given
Option(options, name, default) ==
  IF name \in DOMAIN options THEN options[name] ELSE default

\* `initialTimestamp ? ... : null`: an option not given and the empty string
\* are both falsy
Truthy(options) ==
  /\ "initialTimestamp" \in DOMAIN options
  /\ ~(IsString(options.initialTimestamp) /\ options.initialTimestamp.str = <<>>)

\* mutant: a fresh clock starts at counter 1
createHLC_CounterOne(options, tsNow) ==
  LET nodeId == options.nodeId
      initialTimestampObj == toHLCTimestamp(options.initialTimestamp)
  IN IF ~Truthy(options) THEN Return(createHLCTimestamp(tsNow, 1, nodeId))
     ELSE IF initialTimestampObj.kind # "ok" THEN initialTimestampObj
     ELSE Return(createHLCTimestamp(initialTimestampObj.t.ts,
                                    initialTimestampObj.t.cl, nodeId))

\* createHLC(options) with wall-clock reading tsNow: the initial state cell,
\* or the error thrown
createHLC(options, tsNow) ==
  LET nodeId == options.nodeId
      initialTimestampObj == toHLCTimestamp(options.initialTimestamp)
  IN IF ~Truthy(options) THEN Return(createHLCTimestamp(tsNow, 0, nodeId))
     ELSE IF initialTimestampObj.kind # "ok" THEN initialTimestampObj
     ELSE Return(createHLCTimestamp(initialTimestampObj.t.ts,
                                    initialTimestampObj.t.cl, nodeId))

\* the bounds the instance returned by createHLC exposes
MIN_TIMESTAMP(nodeId) == createHLCTimestamp(Num(0), 0, nodeId)

MAX_TIMESTAMP(nodeId) == createHLCTimestamp(MAX_EPOCH, MAX_LOGICAL_CLOCK, nodeId)

MIN_HLC_TIMESTAMP ==
  createHLCTimestamp(Num(0), 0,
    <<"0","0","0","0","0","0","0","0","-","0","0","0","0","-","0","0","0","0","-",
      "0","0","0","0","-","0","0","0","0","0","0","0","0","0","0","0","0">>)

MAX_HLC_TIMESTAMP ==
  createHLCTimestamp(MAX_EPOCH, MAX_LOGICAL_CLOCK,
    <<"f","f","f","f","f","f","f","f","-","f","f","f","f","-","f","f","f","f","-",
      "f","f","f","f","-","f","f","f","f","f","f","f","f","f","f","f","f">>)

-----------------------------------------------------------------------------
(* Inputs of the model *)

IdA == <<"a">>

IdB == <<"b">>

Nothing == [none |-> TRUE]

\* wall-clock readings (getWallClockTime) and remote physical times:
\* 0, 1000, 2000, ... ms
Times == {Num(1000 * k) : k \in 0..MaxTime}

\* maxDrift options; the option may also be left out
Drifts == {100, 1000}

\* counters of remote timestamps
Counters ==
  {0, 5, MAX_LOGICAL_CLOCK - 2, MAX_LOGICAL_CLOCK - 1, MAX_LOGICAL_CLOCK}

\* strings the strict parser rejects
BadStrings ==
  { <<"n", "o", "t", "-", "v", "a", "l", "i", "d">>,
    serialize(Num(1000), 1, <<>>),
    serialize(Num(1000), 1, <<"a", "|", "b">>),
    toISOString(Num(1000)) \o <<"|", "x", "|">> \o IdB }

\* remote timestamps handed to receive: values and strings
RemoteValues == {createHLCTimestamp(ts, cl, IdB) : ts \in Times, cl \in Counters}

RemoteStrings ==
  {String(serializeHLC(t)) : t \in {r \in RemoteValues : r.cl = 5}}
    \cup {String(s) : s \in BadStrings}

Remotes == RemoteValues \cup RemoteStrings

\* resume points given as the initialTimestamp option
InitialTimestamps ==
  { createHLCTimestamp(Num(1000), 2, IdB),
    createHLCTimestamp(Num(2000), MAX_LOGICAL_CLOCK - 2, IdB),
    createHLCTimestamp(Num(3000), MAX_LOGICAL_CLOCK, IdB),
    String(serialize(Num(2000), 5, IdB)),
    String(<<>>) }

\* record o with field name set to v
With(o, name, v) ==
  [x \in DOMAIN o \cup {name} |-> IF x = name THEN v ELSE o[x]]

\* the options createHLC is called with, for the instance with id nodeId
OptionSets(nodeId) ==
  LET ids    == {[nodeId |-> nodeId]}
      drifts == ids \cup {With(o, "maxDrift", d) : o \in ids, d \in Drifts}
  IN drifts \cup
       {With(o, "initialTimestamp", i) : o \in drifts, i \in InitialTimestamps}

-----------------------------------------------------------------------------
(* The calls made on clock instances *)

Called(n, op, now, arg, pre, ret) ==
  [node |-> n, op |-> op, now |-> now, arg |-> arg, pre |-> pre, ret |-> ret]

\* createHLC(options) for every id of ids; the wall clock is read only when
\* there is no resume point
Created(ids, optionsOf, nowOf) ==
  /\ \A n \in ids : createHLC(optionsOf[n], nowOf[n]).kind = "ok"
  /\ state = [n \in ids |-> createHLC(optionsOf[n], nowOf[n]).t]
  /\ maxDrift = [n \in ids |-> Option(optionsOf[n], "maxDrift", DEFAULT_MAX_DRIFT)]
  /\ returned = [n \in ids |-> <<>>]
  /\ calls = 0

\* mutant: the state cell is one variable shared by all instances
Commit_SharedState(n, op, now, arg, r) ==
  /\ state' = [m \in DOMAIN state |-> r.state]
  /\ last' = Called(n, op, now, arg, state[n], r.ret)
  /\ calls' = calls + 1
  /\ UNCHANGED maxDrift

\* the state cell after a call on instance n ended with r = [ret, state]
Commit(n, op, now, arg, r) ==
  /\ state' = [state EXCEPT ![n] = r.state]
  /\ last' = Called(n, op, now, arg, state[n], r.ret)
  /\ calls' = calls + 1
  /\ UNCHANGED maxDrift

\* the log of returned timestamps after that call
Logged(n, r) ==
  returned' = IF r.ret.kind = "ok"
                THEN [returned EXCEPT ![n] = Append(@, r.ret.t)]
                ELSE returned

-----------------------------------------------------------------------------
(* Spec: one instance, any options, any wall-clock readings and remotes *)

Init ==
  \E options \in OptionSets(IdA), tsNow \in Times :
    /\ Created({IdA}, [n \in {IdA} |-> options], [n \in {IdA} |-> tsNow])
    /\ last = Called(IdA, "createHLC",
                     IF Truthy(options) THEN Nothing ELSE tsNow, options, Nothing,
                     createHLC(options, tsNow))
    /\ events = <<>>
    /\ past = [n \in {IdA} |-> {}]

Send(n) ==
  /\ calls < MaxCalls
  /\ \E tsNow \in Times :
       Commit(n, "send", tsNow, Nothing, send(state[n], tsNow, maxDrift[n], n))
  /\ UNCHANGED <<returned, events, past>>

Receive(n) ==
  /\ calls < MaxCalls
  /\ \E tsNow \in Times, remoteTimestamp \in Remotes :
       Commit(n, "receive", tsNow, remoteTimestamp,
              receive(state[n], tsNow, remoteTimestamp, maxDrift[n], n))
  /\ UNCHANGED <<returned, events, past>>

Next == \E n \in DOMAIN state : Send(n) \/ Receive(n)

Spec == Init /\ [][Next]_vars

-----------------------------------------------------------------------------
(* SpecHist: one instance, with the log of the timestamps it returned *)

HistRemotes ==
  {r \in RemoteValues : r.cl \in {0, 5, MAX_LOGICAL_CLOCK - 1}}
    \cup {String(serialize(Num(2000), 5, IdB)), String(<<"x">>)}

HistOptions ==
  {o \in OptionSets(IdA) :
     /\ Option(o, "maxDrift", 1000) = 1000
     /\ Option(o, "initialTimestamp", Nothing) \in
          {Nothing, createHLCTimestamp(Num(1000), 2, IdB),
           createHLCTimestamp(Num(2000), MAX_LOGICAL_CLOCK - 2, IdB)}}

InitHist ==
  \E options \in HistOptions, tsNow \in Times :
    /\ Created({IdA}, [n \in {IdA} |-> options], [n \in {IdA} |-> tsNow])
    /\ last = Called(IdA, "createHLC",
                     IF Truthy(options) THEN Nothing ELSE tsNow, options, Nothing,
                     createHLC(options, tsNow))
    /\ events = <<>>
    /\ past = [n \in {IdA} |-> {}]

HistSend(n) ==
  /\ calls < MaxHistCalls
  /\ \E tsNow \in Times :
       LET r == send(state[n], tsNow, maxDrift[n], n)
       IN Commit(n, "send", tsNow, Nothing, r) /\ Logged(n, r)
  /\ UNCHANGED <<events, past>>

HistReceive(n) ==
  /\ calls < MaxHistCalls
  /\ \E tsNow \in Times, remoteTimestamp \in HistRemotes :
       LET r == receive(state[n], tsNow, remoteTimestamp, maxDrift[n], n)
       IN Commit(n, "receive", tsNow, remoteTimestamp, r) /\ Logged(n, r)
  /\ UNCHANGED <<events, past>>

NextHist == \E n \in DOMAIN state : HistSend(n) \/ HistReceive(n)

SpecHist == InitHist /\ [][NextHist]_vars

-----------------------------------------------------------------------------
(* SpecNet: several instances, each with its own wall clock; every receive *)
(* is of a timestamp some instance returned before.  events lists the      *)
(* successful calls in order, each with the events that happen-before it:  *)
(* hb along successful calls only, hbAll also along failed receives.       *)

Nodes == {IdA, IdB}

NetTimes == {Num(1000), Num(2000)}

Event(n, t, before) ==
  [node |-> n, t |-> t, hb |-> before.hb, hbAll |-> before.hbAll]

InitNet ==
  \E optionsOf \in [Nodes -> {With([nodeId |-> IdA], "maxDrift", d) : d \in Drifts}],
     nowOf \in [Nodes -> NetTimes] :
    /\ Created(Nodes, [n \in Nodes |-> With(optionsOf[n], "nodeId", n)], nowOf)
    /\ last = Nothing
    /\ events = <<>>
    /\ past = [n \in Nodes |-> [hb |-> {}, hbAll |-> {}]]

\* the call on n ended with r after learning of the events in learnt
Happened(n, r, learnt) ==
  LET before == [hb    |-> past[n].hb \cup learnt.hb,
                 hbAll |-> past[n].hbAll \cup learnt.hbAll]
      me     == Len(events) + 1
  IN IF r.ret.kind = "ok"
       THEN /\ events' = Append(events, Event(n, r.ret.t, before))
            /\ past' = [past EXCEPT ![n] = [hb    |-> before.hb \cup {me},
                                            hbAll |-> before.hbAll \cup {me}]]
       ELSE /\ events' = events
            /\ past' = [past EXCEPT ![n] = [hb    |-> past[n].hb,
                                            hbAll |-> before.hbAll]]

NetSend(n) ==
  /\ calls < MaxNetCalls
  /\ \E tsNow \in NetTimes :
       LET r == send(state[n], tsNow, maxDrift[n], n)
       IN /\ Commit(n, "send", tsNow, Nothing, r)
          /\ Logged(n, r)
          /\ Happened(n, r, [hb |-> {}, hbAll |-> {}])

NetReceive(n) ==
  /\ calls < MaxNetCalls
  /\ \E tsNow \in NetTimes, j \in 1..Len(events) :
       LET r == receive(state[n], tsNow, events[j].t, maxDrift[n], n)
       IN /\ Commit(n, "receive", tsNow, events[j].t, r)
          /\ Logged(n, r)
          /\ Happened(n, r, [hb    |-> events[j].hb \cup {j},
                             hbAll |-> events[j].hbAll \cup {j}])

NextNet == \E n \in DOMAIN state : NetSend(n) \/ NetReceive(n)

SpecNet == InitNet /\ [][NextNet]_vars

-----------------------------------------------------------------------------
(* SpecValue: the value type.  The arguments of one call of serializeHLC,  *)
(* parseHLCTimestampStrict, parseHLCTimestamp or compareHLCTimestamps are  *)
(* drawn, and the call is made.                                            *)

\* physical times: the epoch, the ends of a second and of a year, a day of
\* 2025, MAX_EPOCH and the millisecond after it
ValueTimes ==
  { Num(0), Num(999), Num(1000), <<364, 86399999>>, <<365, 0>>,
    <<20230, 45296789>>, MAX_EPOCH, <<2932897, 0>> }

ValueCounters ==
  {0, 1, 5, 9, 10, 12345678, MAX_LOGICAL_CLOCK - 1, MAX_LOGICAL_CLOCK}

ValueIds == {IdA, IdB, <<"n", "o", "d", "e", "-", "2">>, <<" ">>, <<"a", "|", "b">>, <<"|">>, <<>>}

\* createHLCTimestamp validates nothing: every triple is a timestamp
ValueTimestamps ==
  {createHLCTimestamp(ts, cl, id) : ts \in ValueTimes, cl \in ValueCounters, id \in ValueIds}

\* the timestamps compared with each other
OrderTimestamps == {t \in ValueTimestamps : t.id \in {IdA, IdB}}

\* date fields: canonical ones, a date without time, no date, dates before
\* the epoch and after MAX_EPOCH
DateFields ==
  { toISOString(Num(1000)), toISOString(MAX_EPOCH), <<"1", "9", "7", "0", "-", "0", "1", "-", "0", "2">>,
    <<"n", "o", "t", "a", "d", "a", "t", "e">>, <<>>, toISOString(<<2932897, 0>>), toISOString(<<0 - 1, 86399999>>) }

\* counter fields: 8 digits, fewer, more, signs, white space, trailing text
CounterFields ==
  { <<"0", "0", "0", "0", "0", "0", "0", "1">>, <<"9", "9", "9", "9", "9", "9", "9", "9">>, <<"1", "0", "0", "0", "0", "0", "0", "0", "0">>, <<"5">>, <<"0", "0", "0", "0", "0", "0", "0", "5", "a", "b", "c">>, <<" ", "+", "5">>,
    <<"-", "1">>, <<"n", "o", "t", "a", "n", "u", "m", "b", "e", "r">>, <<>>, <<"1", "8", "4", "4", "6", "7", "4", "4", "0", "7", "3", "7", "0", "9", "5", "5", "1", "6", "1", "6">>, <<"0", "x", "1", "0">> }

IdFields == {IdB, <<>>, <<" ">>}

\* strings with another number of fields than 3
OtherStrings ==
  { <<>>, <<" ">>, <<"0">>, <<"i", "n", "v", "a", "l", "i", "d">>,
    toISOString(Num(1000)) \o <<"|">> \o <<"0", "0", "0", "0", "0", "0", "0", "1">>,
    toISOString(Num(1000)) \o <<"|">> \o <<"0", "0", "0", "0", "0", "0", "0", "1">> \o <<"|">> \o IdB \o <<"|">>,
    <<"|">> \o toISOString(Num(1000)) \o <<"|">> \o <<"0", "0", "0", "0", "0", "0", "0", "1">> \o <<"|">> \o IdB }

ValueStrings ==
  {serializeHLC(t) : t \in ValueTimestamps}
    \cup {d \o <<"|">> \o c \o <<"|">> \o id :
            d \in DateFields, c \in CounterFields, id \in IdFields}
    \cup OtherStrings

\* the arguments of one call
ValueArguments ==
  ValueTimestamps
    \cup {[t1 |-> a, t2 |-> b] : a \in OrderTimestamps, b \in OrderTimestamps}
    \cup {String(str) : str \in ValueStrings}

InitValue ==
  \E arguments \in ValueArguments :
    /\ last = Called(Nothing, "arguments", Nothing, arguments, Nothing, Nothing)
    /\ state = [n \in {} |-> Nothing]
    /\ maxDrift = [n \in {} |-> DEFAULT_MAX_DRIFT]
    /\ returned = [n \in {} |-> <<>>]
    /\ calls = 0
    /\ events = <<>>
    /\ past = [n \in {} |-> {}]

\* the call op(last.arg) ended with ret
Applied(op, ret) ==
  /\ last' = Called(Nothing, op, Nothing, last.arg, Nothing, ret)
  /\ UNCHANGED <<state, maxDrift, returned, calls, events, past>>

SerializeHLC ==
  /\ last.op = "arguments" /\ "ts" \in DOMAIN last.arg
  /\ Applied("serializeHLC", Return(String(serializeHLC(last.arg))))

CompareHLCTimestamps ==
  /\ last.op = "arguments" /\ "t1" \in DOMAIN last.arg
  /\ Applied("compareHLCTimestamps",
             Return(compareHLCTimestamps(last.arg.t1, last.arg.t2)))

ParseHLCTimestampStrict ==
  /\ last.op = "arguments" /\ IsString(last.arg)
  /\ Applied("parseHLCTimestampStrict", parseHLCTimestampStrict(last.arg.str))

ParseHLCTimestamp ==
  /\ last.op = "arguments" /\ IsString(last.arg)
  /\ Applied("parseHLCTimestamp", parseHLCTimestamp(last.arg.str))

NextValue ==
  \/ SerializeHLC
  \/ CompareHLCTimestamps
  \/ ParseHLCTimestampStrict
  \/ ParseHLCTimestamp

SpecValue == InitValue /\ [][NextValue]_vars

-----------------------------------------------------------------------------
(* SpecCreate: one call of createHLC.  The options and the reading the     *)
(* wall clock would give are drawn, and createHLC is called: it returns an *)
(* instance or throws.                                                     *)

\* options of createHLC: the maxDrift given or not, the initialTimestamp not
\* given, a timestamp, or any string of the value type's inputs
CreateOptions ==
  LET ids    == {[nodeId |-> IdA]}
      drifts == ids \cup {With(o, "maxDrift", d) : o \in ids, d \in Drifts}
  IN drifts \cup
       {With(o, "initialTimestamp", i) :
          o \in drifts,
          i \in InitialTimestamps \cup {String(str) : str \in ValueStrings}}

InitCreate ==
  \E options \in CreateOptions, tsNow \in Times :
    /\ last = Called(options.nodeId, "arguments", tsNow, options, Nothing, Nothing)
    /\ state = [n \in {} |-> Nothing]
    /\ maxDrift = [n \in {} |-> DEFAULT_MAX_DRIFT]
    /\ returned = [n \in {} |-> <<>>]
    /\ calls = 0
    /\ events = <<>>
    /\ past = [n \in {} |-> {}]

\* createHLC(options): the instance exists only if createHLC returns
CreateHLC ==
  /\ last.op = "arguments"
  /\ LET options == last.arg
         r       == createHLC(options, last.now)
         ids     == IF r.kind = "ok" THEN {options.nodeId} ELSE {}
     IN /\ state' = [n \in ids |-> r.t]
        /\ maxDrift' = [n \in ids |-> Option(options, "maxDrift", DEFAULT_MAX_DRIFT)]
        /\ returned' = [n \in ids |-> <<>>]
        /\ past' = [n \in ids |-> {}]
        /\ last' = Called(options.nodeId, "createHLC", last.now, options, Nothing, r)
  /\ UNCHANGED <<calls, events>>

NextCreate == CreateHLC

SpecCreate == InitCreate /\ [][NextCreate]_vars

-----------------------------------------------------------------------------
(* SpecRestore: an instance makes calls; a second instance is then created *)
(* with the last timestamp the first returned as its initialTimestamp, and *)
(* from there both are given the same wall-clock readings and remotes.     *)

\* nodeIds of the original instance; the restored instance is IdB
RestoreIds == {IdA, <<"a", "|", "b">>}

\* the original is created without a resume point
RestoreOptions ==
  UNION {{o \in OptionSets(id) : "initialTimestamp" \notin DOMAIN o} : id \in RestoreIds}

\* the instance that is not the restored one
Original == CHOOSE n \in DOMAIN state : n # IdB

InitRestore ==
  \E options \in RestoreOptions, tsNow \in Times :
    LET id == options.nodeId
    IN /\ Created({id}, [n \in {id} |-> options], [n \in {id} |-> tsNow])
       /\ last = Called(id, "createHLC", tsNow, options, Nothing,
                        createHLC(options, tsNow))
       /\ events = <<>>
       /\ past = [n \in {id} |-> Nothing]

\* a call on the original before the restore
RestoreSend ==
  /\ calls < MaxRestoreCalls
  /\ DOMAIN state = {Original}
  /\ \E tsNow \in Times :
       Commit(Original, "send", tsNow, Nothing,
              send(state[Original], tsNow, maxDrift[Original], Original))
  /\ UNCHANGED <<returned, events, past>>

RestoreReceive ==
  /\ calls < MaxRestoreCalls
  /\ DOMAIN state = {Original}
  /\ \E tsNow \in Times, remoteTimestamp \in HistRemotes :
       Commit(Original, "receive", tsNow, remoteTimestamp,
              receive(state[Original], tsNow, remoteTimestamp, maxDrift[Original],
                      Original))
  /\ UNCHANGED <<returned, events, past>>

\* createHLC({nodeId: IdB, maxDrift, initialTimestamp}) where initialTimestamp
\* is the timestamp the original just returned, or its serializeHLC string
Restore ==
  /\ DOMAIN state = {Original}
  /\ last.op \in {"send", "receive"}
  /\ last.ret.kind = "ok"
  /\ \E initialTimestamp \in {last.ret.t, String(serializeHLC(last.ret.t))},
        tsNow \in Times :
       LET options == [nodeId |-> IdB, maxDrift |-> maxDrift[Original],
                       initialTimestamp |-> initialTimestamp]
           r       == createHLC(options, tsNow)
           ids     == IF r.kind = "ok" THEN {Original, IdB} ELSE {Original}
       IN /\ state' = [n \in ids |-> IF n = IdB THEN r.t ELSE state[n]]
          /\ maxDrift' = [n \in ids |-> maxDrift[Original]]
          /\ returned' = [n \in ids |-> <<>>]
          /\ past' = [n \in ids |-> Nothing]
          /\ last' = Called(IdB, "createHLC", Nothing, options, Nothing, r)
  /\ UNCHANGED <<calls, events>>

\* the state cells, and the two results (the original's in past, the
\* restored instance's in last), after the same call on both instances
Both(op, now, arg, rOriginal, rRestored) ==
  /\ state' = [n \in DOMAIN state |->
                 IF n = IdB THEN rRestored.state ELSE rOriginal.state]
  /\ past' = [n \in DOMAIN state |-> IF n = IdB THEN Nothing ELSE rOriginal.ret]
  /\ last' = Called(IdB, op, now, arg, state[IdB], rRestored.ret)
  /\ calls' = calls + 1
  /\ UNCHANGED <<maxDrift, returned, events>>

BothSend ==
  /\ calls < MaxRestoreCalls
  /\ IdB \in DOMAIN state
  /\ \E tsNow \in Times :
       Both("send", tsNow, Nothing,
            send(state[Original], tsNow, maxDrift[Original], Original),
            send(state[IdB], tsNow, maxDrift[IdB], IdB))

BothReceive ==
  /\ calls < MaxRestoreCalls
  /\ IdB \in DOMAIN state
  /\ \E tsNow \in Times, remoteTimestamp \in HistRemotes :
       Both("receive", tsNow, remoteTimestamp,
            receive(state[Original], tsNow, remoteTimestamp, maxDrift[Original],
                    Original),
            receive(state[IdB], tsNow, remoteTimestamp, maxDrift[IdB], IdB))

NextRestore ==
  RestoreSend \/ RestoreReceive \/ Restore \/ BothSend \/ BothReceive

SpecRestore == InitRestore /\ [][NextRestore]_vars

-----------------------------------------------------------------------------
(* SpecBounds: one instance whose wall clock, resume point and remotes are *)
(* at the two ends of the valid range                                      *)

BoundTimes == {Num(0), Num(1000), NumSub(MAX_EPOCH, Num(1000)), MAX_EPOCH}

BoundCounters == {0, MAX_LOGICAL_CLOCK - 1, MAX_LOGICAL_CLOCK}

\* remotes with valid fields, and one string the decoder rejects (a date
\* after MAX_EPOCH)
BoundRemotes ==
  {createHLCTimestamp(ts, cl, IdB) : ts \in BoundTimes, cl \in BoundCounters}
    \cup {String(serialize(MAX_EPOCH, MAX_LOGICAL_CLOCK, IdB)),
          String(serialize(<<2932897, 0>>, 0, IdB))}

BoundOptions ==
  LET ids    == {[nodeId |-> IdA]}
      drifts == ids \cup {With(o, "maxDrift", 1000) : o \in ids}
  IN drifts \cup
       {With(o, "initialTimestamp", i) :
          o \in drifts,
          i \in {createHLCTimestamp(Num(0), 0, IdB),
                 createHLCTimestamp(MAX_EPOCH, MAX_LOGICAL_CLOCK - 2, IdB),
                 createHLCTimestamp(MAX_EPOCH, MAX_LOGICAL_CLOCK, IdB),
                 String(serialize(MAX_EPOCH, MAX_LOGICAL_CLOCK, IdB))}}

InitBounds ==
  \E options \in BoundOptions, tsNow \in BoundTimes :
    /\ Created({IdA}, [n \in {IdA} |-> options], [n \in {IdA} |-> tsNow])
    /\ last = Called(IdA, "createHLC",
                     IF Truthy(options) THEN Nothing ELSE tsNow, options, Nothing,
                     createHLC(options, tsNow))
    /\ events = <<>>
    /\ past = [n \in {IdA} |-> {}]

BoundSend(n) ==
  /\ calls < MaxBoundCalls
  /\ \E tsNow \in BoundTimes :
       Commit(n, "send", tsNow, Nothing, send(state[n], tsNow, maxDrift[n], n))
  /\ UNCHANGED <<returned, events, past>>

BoundReceive(n) ==
  /\ calls < MaxBoundCalls
  /\ \E tsNow \in BoundTimes, remoteTimestamp \in BoundRemotes :
       Commit(n, "receive", tsNow, remoteTimestamp,
              receive(state[n], tsNow, remoteTimestamp, maxDrift[n], n))
  /\ UNCHANGED <<returned, events, past>>

NextBounds == \E n \in DOMAIN state : BoundSend(n) \/ BoundReceive(n)

SpecBounds == InitBounds /\ [][NextBounds]_vars

-----------------------------------------------------------------------------
(* SpecRecover: one instance near the end of the counter's range, with the *)
(* kinds of the errors its calls have thrown so far                        *)

RecoverOptions ==
  LET ids    == {[nodeId |-> IdA]}
      drifts == ids \cup {With(o, "maxDrift", 1000) : o \in ids}
  IN drifts \cup
       {With(o, "initialTimestamp", i) :
          o \in drifts,
          i \in {createHLCTimestamp(Num(2000), MAX_LOGICAL_CLOCK - 2, IdB),
                 createHLCTimestamp(Num(1000), MAX_LOGICAL_CLOCK - 1, IdB)}}

InitRecover ==
  \E options \in RecoverOptions, tsNow \in Times :
    /\ Created({IdA}, [n \in {IdA} |-> options], [n \in {IdA} |-> tsNow])
    /\ last = Called(IdA, "createHLC",
                     IF Truthy(options) THEN Nothing ELSE tsNow, options, Nothing,
                     createHLC(options, tsNow))
    /\ events = <<>>
    /\ past = [n \in {IdA} |-> {}]

\* the errors thrown so far, after a call on instance n ended with r
Thrown(n, r) ==
  past' = IF r.ret.kind = "ok" THEN past
          ELSE [past EXCEPT ![n] = @ \cup {r.ret.kind}]

RecoverSend(n) ==
  /\ calls < MaxRecoverCalls
  /\ \E tsNow \in Times :
       LET r == send(state[n], tsNow, maxDrift[n], n)
       IN Commit(n, "send", tsNow, Nothing, r) /\ Thrown(n, r)
  /\ UNCHANGED <<returned, events>>

RecoverReceive(n) ==
  /\ calls < MaxRecoverCalls
  /\ \E tsNow \in Times, remoteTimestamp \in HistRemotes :
       LET r == receive(state[n], tsNow, remoteTimestamp, maxDrift[n], n)
       IN Commit(n, "receive", tsNow, remoteTimestamp, r) /\ Thrown(n, r)
  /\ UNCHANGED <<returned, events>>

NextRecover == \E n \in DOMAIN state : RecoverSend(n) \/ RecoverReceive(n)

SpecRecover == InitRecover /\ [][NextRecover]_vars

-----------------------------------------------------------------------------
(* SpecHeap: one instance with its objects.  events is the heap: the       *)
(* objects createHLCTimestamp has made, in order.  state[n] is a reference *)
(* into it, and returned[n] holds the references handed to the caller.     *)
(* createHLCTimestamp returns a plain object, and `return (state = ...)`   *)
(* hands the caller the object the state cell refers to.                   *)

HeapRemotes ==
  {createHLCTimestamp(ts, cl, IdB) : ts \in Times, cl \in {0, 5}}

\* values a caller assigns to a field of an object it holds
HeapWrites ==
  {[field |-> "ts", value |-> ts] : ts \in Times}
    \cup {[field |-> "cl", value |-> cl] : cl \in {0, MAX_LOGICAL_CLOCK - 1}}

InitHeap ==
  \E options \in RecoverOptions, tsNow \in Times :
    /\ createHLC(options, tsNow).kind = "ok"
    /\ events = <<createHLC(options, tsNow).t>>
    /\ state = [n \in {IdA} |-> 1]
    /\ maxDrift = [n \in {IdA} |-> Option(options, "maxDrift", DEFAULT_MAX_DRIFT)]
    /\ returned = [n \in {IdA} |-> <<>>]
    /\ calls = 0
    /\ last = Called(IdA, "createHLC",
                     IF Truthy(options) THEN Nothing ELSE tsNow, options, Nothing,
                     createHLC(options, tsNow))
    /\ past = [n \in {IdA} |-> {}]

\* a call on instance n ended with r: a timestamp returned is a new object,
\* which the state cell refers to and the caller receives
HeapCommit(n, op, now, arg, r) ==
  /\ IF r.ret.kind = "ok"
       THEN /\ events' = Append(events, r.ret.t)
            /\ state' = [state EXCEPT ![n] = Len(events) + 1]
            /\ returned' = [returned EXCEPT ![n] = Append(@, Len(events) + 1)]
       ELSE UNCHANGED <<events, state, returned>>
  /\ last' = Called(n, op, now, arg, events[state[n]], r.ret)
  /\ calls' = calls + 1
  /\ UNCHANGED <<maxDrift, past>>

HeapSend(n) ==
  /\ calls < MaxHeapCalls
  /\ \E tsNow \in Times :
       HeapCommit(n, "send", tsNow, Nothing,
                  send(events[state[n]], tsNow, maxDrift[n], n))

HeapReceive(n) ==
  /\ calls < MaxHeapCalls
  /\ \E tsNow \in Times, remoteTimestamp \in HeapRemotes :
       HeapCommit(n, "receive", tsNow, remoteTimestamp,
                  receive(events[state[n]], tsNow, remoteTimestamp, maxDrift[n], n))

\* the caller assigns to a field of a timestamp that instance n returned
CallerWrite(n) ==
  /\ calls < MaxHeapCalls
  /\ \E i \in 1..Len(returned[n]), w \in HeapWrites :
       LET ref == returned[n][i]
       IN /\ events' = [events EXCEPT ![ref] =
                          IF w.field = "ts" THEN [@ EXCEPT !.ts = w.value]
                          ELSE [@ EXCEPT !.cl = w.value]]
          /\ last' = Called(n, "write", Nothing,
                            [ref |-> ref, field |-> w.field, value |-> w.value],
                            events[state[n]], Nothing)
  /\ calls' = calls + 1
  /\ UNCHANGED <<state, maxDrift, returned, past>>

NextHeap == \E n \in DOMAIN state : HeapSend(n) \/ HeapReceive(n) \/ CallerWrite(n)

SpecHeap == InitHeap /\ [][NextHeap]_vars

-----------------------------------------------------------------------------
(* SpecRace: two threads of execution call one instance without mutual     *)
(* exclusion.  A call is three steps: it reads the wall clock, it reads the *)
(* state cell, and it computes, checks and assigns the state cell.          *)
(* events[th] is the call thread th is in, past[n] says whether two calls   *)
(* on n have overlapped between reading the state and assigning it, and     *)
(* returned[n] logs the timestamps returned, in the order of the            *)
(* assignments.                                                             *)

Threads == {1, 2}

RaceRemotes ==
  {createHLCTimestamp(ts, cl, IdB) : ts \in {Num(0), Num(2000)}, cl \in {0, 5}}

RaceOptions ==
  {[nodeId |-> IdA, maxDrift |-> 1000],
   [nodeId |-> IdA, maxDrift |-> 1000,
    initialTimestamp |-> createHLCTimestamp(Num(1000), 2, IdB)]}

InitRace ==
  \E options \in RaceOptions, tsNow \in Times :
    /\ Created({IdA}, [n \in {IdA} |-> options], [n \in {IdA} |-> tsNow])
    /\ last = Called(IdA, "createHLC",
                     IF Truthy(options) THEN Nothing ELSE tsNow, options, Nothing,
                     createHLC(options, tsNow))
    /\ events = [th \in Threads |-> Nothing]
    /\ past = [n \in {IdA} |-> {}]

\* thread th enters send or receive on instance n and reads the wall clock
Enter(th, n) ==
  /\ calls < MaxRaceCalls
  /\ events[th] = Nothing
  /\ \E tsNow \in Times :
       \E call \in {[op |-> "send", arg |-> Nothing]}
                    \cup {[op |-> "receive", arg |-> r] : r \in RaceRemotes} :
         events' = [events EXCEPT ![th] =
                      [node |-> n, op |-> call.op, arg |-> call.arg, now |-> tsNow,
                       pc |-> "read"]]
  /\ calls' = calls + 1
  /\ UNCHANGED <<state, maxDrift, last, returned, past>>

\* thread th reads the state cell; the calls overlap if another thread has
\* read the cell of the same instance and not yet assigned it
ReadState(th) ==
  /\ events[th] # Nothing
  /\ events[th].pc = "read"
  /\ LET n == events[th].node
         overlap == \E other \in Threads \ {th} :
                      /\ events[other] # Nothing
                      /\ events[other].node = n
                      /\ events[other].pc = "assign"
     IN /\ events' = [events EXCEPT ![th] =
                        [node |-> n, op |-> @.op, arg |-> @.arg, now |-> @.now,
                         pc |-> "assign", st |-> state[n]]]
        /\ past' = IF overlap THEN [past EXCEPT ![n] = {"overlap"}] ELSE past
  /\ UNCHANGED <<state, maxDrift, last, returned, calls>>

\* thread th computes the timestamp from what it read, and assigns and
\* returns it unless a check throws
AssignState(th) ==
  /\ events[th] # Nothing
  /\ events[th].pc = "assign"
  /\ LET f == events[th]
         n == f.node
         r == IF f.op = "send" THEN send(f.st, f.now, maxDrift[n], n)
              ELSE receive(f.st, f.now, f.arg, maxDrift[n], n)
     IN /\ state' = IF r.ret.kind = "ok" THEN [state EXCEPT ![n] = r.ret.t]
                    ELSE state
        /\ Logged(n, r)
        /\ last' = Called(n, f.op, f.now, f.arg, f.st, r.ret)
  /\ events' = [events EXCEPT ![th] = Nothing]
  /\ UNCHANGED <<maxDrift, calls, past>>

NextRace ==
  \E th \in Threads :
    \/ \E n \in DOMAIN state : Enter(th, n)
    \/ ReadState(th)
    \/ AssignState(th)

SpecRace == InitRace /\ [][NextRace]_vars

-----------------------------------------------------------------------------
(* SpecSteps: createHLC, send and receive step by step, with the calls of  *)
(* getWallClockTime counted.  getWallClockTime is the caller's function: it *)
(* may call send or receive on the instance before it returns.  events is   *)
(* the stack of calls in progress, and past holds, for the call that ended  *)
(* last, how often it called getWallClockTime and the result of the last    *)
(* call made from inside that callback.                                     *)

StepRemotes ==
  {createHLCTimestamp(ts, cl, IdB) : ts \in {Num(0), Num(2000)}, cl \in {0, 5}}
    \cup {String(serialize(Num(2000), 5, IdB)), String(<<"x">>)}

StepOptions ==
  LET o == [nodeId |-> IdA, maxDrift |-> 1000]
  IN {o} \cup
       {With(o, "initialTimestamp", i) :
          i \in {createHLCTimestamp(Num(1000), 2, IdB),
                 String(serialize(Num(2000), 5, IdB)),
                 String(<<"x">>),
                 String(<<>>)}}

\* calls of getWallClockTime that createHLC(options) makes:
\* `initialTimestampObj?.ts ?? getWallClockTime()` is evaluated after
\* toHLCTimestamp returned, and calls it when initialTimestampObj is null
createHLCReads(options) ==
  IF ~Truthy(options) THEN 1
  ELSE IF toHLCTimestamp(options.initialTimestamp).kind # "ok" THEN 0
  ELSE 0

InitSteps ==
  \E options \in StepOptions, tsNow \in Times :
    /\ last = Called(options.nodeId, "arguments", tsNow, options, Nothing, Nothing)
    /\ state = [n \in {} |-> Nothing]
    /\ maxDrift = [n \in {} |-> DEFAULT_MAX_DRIFT]
    /\ returned = [n \in {} |-> <<>>]
    /\ calls = 0
    /\ events = <<>>
    /\ past = Nothing

StepCreateHLC ==
  /\ last.op = "arguments"
  /\ LET options == last.arg
         r       == createHLC(options, last.now)
         ids     == IF r.kind = "ok" THEN {options.nodeId} ELSE {}
     IN /\ state' = [n \in ids |-> r.t]
        /\ maxDrift' = [n \in ids |-> Option(options, "maxDrift", DEFAULT_MAX_DRIFT)]
        /\ returned' = [n \in ids |-> <<>>]
        /\ last' = Called(options.nodeId, "createHLC", last.now, options, Nothing, r)
        /\ past' = [reads |-> createHLCReads(options), inner |-> Nothing]
  /\ UNCHANGED <<calls, events>>

\* the call in progress that is running
Top == events[Len(events)]

\* the stack and the records after the running call ended with ret
Complete(ret) ==
  /\ events' =
       IF Len(events) = 1 THEN <<>>
       ELSE [SubSeq(events, 1, Len(events) - 1) EXCEPT ![Len(events) - 1].inner = ret]
  /\ last' = Called(Top.node, Top.op, Top.now, Top.arg, state[Top.node], ret)
  /\ past' = [reads |-> Top.reads, inner |-> Top.inner]

\* send() or receive(remoteTimestamp) is called on instance n, by the caller
\* or from inside getWallClockTime
Begin(n) ==
  /\ last.op # "arguments"
  /\ calls < MaxStepCalls
  /\ IF events = <<>> THEN TRUE
     ELSE Top.pc = "getWallClockTime" /\ Len(events) < MaxDepth
  /\ \E call \in {[op |-> "send", arg |-> Nothing]}
                  \cup {[op |-> "receive", arg |-> r] : r \in StepRemotes} :
       events' = Append(events,
                   [node |-> n, op |-> call.op, arg |-> call.arg,
                    pc |-> IF call.op = "send" THEN "tsNow" ELSE "remote",
                    reads |-> 0, now |-> Nothing, inner |-> Nothing])
  /\ calls' = calls + 1
  /\ UNCHANGED <<state, maxDrift, last, returned, past>>

\* receive: const remote = toHLCTimestamp(remoteTimestamp)
Convert ==
  /\ events # <<>>
  /\ Top.pc = "remote"
  /\ LET remote == toHLCTimestamp(Top.arg)
     IN IF remote.kind = "ok"
          THEN /\ events' = [events EXCEPT ![Len(events)].pc = "tsNow"]
               /\ UNCHANGED <<last, past>>
          ELSE Complete(remote)
  /\ UNCHANGED <<state, maxDrift, returned, calls>>

\* const tsNow = getWallClockTime(): the callback is entered
CallClock ==
  /\ events # <<>>
  /\ Top.pc = "tsNow"
  /\ events' = [events EXCEPT ![Len(events)].pc = "getWallClockTime",
                              ![Len(events)].reads = @ + 1]
  /\ UNCHANGED <<state, maxDrift, last, returned, calls, past>>

\* the callback returns the reading
ClockReturns ==
  /\ events # <<>>
  /\ Top.pc = "getWallClockTime"
  /\ \E tsNow \in Times :
       events' = [events EXCEPT ![Len(events)].pc = "state",
                               ![Len(events)].now = tsNow]
  /\ UNCHANGED <<state, maxDrift, last, returned, calls, past>>

\* the rest of send / receive: the state cell is read, the timestamp computed
\* and checked, the state cell assigned
Finish ==
  /\ events # <<>>
  /\ Top.pc = "state"
  /\ LET n == Top.node
         r == IF Top.op = "send" THEN send(state[n], Top.now, maxDrift[n], n)
              ELSE receive(state[n], Top.now, Top.arg, maxDrift[n], n)
     IN /\ state' = [state EXCEPT ![n] = r.state]
        /\ Complete(r.ret)
  /\ UNCHANGED <<maxDrift, returned, calls>>

NextSteps ==
  \/ StepCreateHLC
  \/ \E n \in DOMAIN state : Begin(n)
  \/ Convert
  \/ CallClock
  \/ ClockReturns
  \/ Finish

SpecSteps == InitSteps /\ [][NextSteps]_vars

-----------------------------------------------------------------------------
(* SpecSeed: one instance, with the options and the wall-clock reading of  *)
(* its construction and the state cell it started with kept in past, and   *)
(* with the log of the timestamps it returned                              *)

SeedOptions ==
  {o \in OptionSets(IdA) :
     Option(o, "initialTimestamp", Nothing) \in
       {Nothing, createHLCTimestamp(Num(1000), 2, IdB), String(<<>>)}}

InitSeed ==
  \E options \in SeedOptions, tsNow \in Times :
    /\ Created({IdA}, [n \in {IdA} |-> options], [n \in {IdA} |-> tsNow])
    /\ last = Called(IdA, "createHLC",
                     IF Truthy(options) THEN Nothing ELSE tsNow, options, Nothing,
                     createHLC(options, tsNow))
    /\ events = <<>>
    /\ past = [n \in {IdA} |->
                [options |-> options, now |-> tsNow,
                 state |-> createHLC(options, tsNow).t]]

SeedSend(n) ==
  /\ calls < MaxSeedCalls
  /\ \E tsNow \in Times :
       LET r == send(state[n], tsNow, maxDrift[n], n)
       IN Commit(n, "send", tsNow, Nothing, r) /\ Logged(n, r)
  /\ UNCHANGED <<events, past>>

SeedReceive(n) ==
  /\ calls < MaxSeedCalls
  /\ \E tsNow \in Times, remoteTimestamp \in HistRemotes :
       LET r == receive(state[n], tsNow, remoteTimestamp, maxDrift[n], n)
       IN Commit(n, "receive", tsNow, remoteTimestamp, r) /\ Logged(n, r)
  /\ UNCHANGED <<events, past>>

NextSeed == \E n \in DOMAIN state : SeedSend(n) \/ SeedReceive(n)

SpecSeed == InitSeed /\ [][NextSeed]_vars

-----------------------------------------------------------------------------
(* SpecMono: one instance whose wall clock never goes back.  past[n] keeps *)
(* the options of the construction and the latest wall-clock reading.      *)

MonoOptions ==
  {o \in OptionSets(IdA) :
     Option(o, "initialTimestamp", Nothing) \in
       {Nothing, createHLCTimestamp(Num(2000), MAX_LOGICAL_CLOCK - 2, IdB)}}

InitMono ==
  \E options \in MonoOptions, tsNow \in Times :
    /\ Created({IdA}, [n \in {IdA} |-> options], [n \in {IdA} |-> tsNow])
    /\ last = Called(IdA, "createHLC",
                     IF Truthy(options) THEN Nothing ELSE tsNow, options, Nothing,
                     createHLC(options, tsNow))
    /\ events = <<>>
    /\ past = [n \in {IdA} |-> [options |-> options, clock |-> tsNow]]

\* the readings the wall clock of instance n can give next
LaterTimes(n) == {tsNow \in Times : ~NumLt(tsNow, past[n].clock)}

MonoSend(n) ==
  /\ calls < MaxMonoCalls
  /\ \E tsNow \in LaterTimes(n) :
       /\ Commit(n, "send", tsNow, Nothing, send(state[n], tsNow, maxDrift[n], n))
       /\ past' = [past EXCEPT ![n].clock = tsNow]
  /\ UNCHANGED <<returned, events>>

MonoReceive(n) ==
  /\ calls < MaxMonoCalls
  /\ \E tsNow \in LaterTimes(n), remoteTimestamp \in HistRemotes :
       /\ Commit(n, "receive", tsNow, remoteTimestamp,
                 receive(state[n], tsNow, remoteTimestamp, maxDrift[n], n))
       /\ past' = [past EXCEPT ![n].clock = tsNow]
  /\ UNCHANGED <<returned, events>>

NextMono == \E n \in DOMAIN state : MonoSend(n) \/ MonoReceive(n)

SpecMono == InitMono /\ [][NextMono]_vars

-----------------------------------------------------------------------------
(* SpecCache: one object made by createHLCTimestamp, with the strCache     *)
(* variable of its closure.  events holds the object, returned the strings *)
(* that toString and serializeHLC have returned for it.                    *)

\* the object createHLCTimestamp(ts, cl, id) returns, strCache being null
createHLCTimestampObject(ts, cl, id) ==
  [ts |-> ts, cl |-> cl, id |-> id, strCache |-> Nothing]

\* mutant: the string is cached without the nodeId
toString_CachesPrefix(hlc) ==
  IF hlc.strCache # Nothing /\ hlc.strCache # <<>>
    THEN [ret |-> hlc.strCache, hlc |-> hlc]
  ELSE [ret |-> serialize(hlc.ts, hlc.cl, hlc.id),
        hlc |-> [hlc EXCEPT !.strCache = serialize(hlc.ts, hlc.cl, <<>>)]]

\* hlc.toString(): the cached string if there is one (null and the empty
\* string are falsy), else serialize(ts, cl, id), which is cached
toString(hlc) ==
  IF hlc.strCache # Nothing /\ hlc.strCache # <<>>
    THEN [ret |-> hlc.strCache, hlc |-> hlc]
  ELSE [ret |-> serialize(hlc.ts, hlc.cl, hlc.id),
        hlc |-> [hlc EXCEPT !.strCache = serialize(hlc.ts, hlc.cl, hlc.id)]]

InitCache ==
  \E t \in ValueTimestamps :
    /\ events = <<createHLCTimestampObject(t.ts, t.cl, t.id)>>
    /\ last = Called(Nothing, "createHLCTimestamp", Nothing, t, Nothing, Nothing)
    /\ returned = <<>>
    /\ calls = 0
    /\ state = [n \in {} |-> Nothing]
    /\ maxDrift = [n \in {} |-> DEFAULT_MAX_DRIFT]
    /\ past = Nothing

\* op is called on the object; both end in hlc.toString()
CacheCall(op) ==
  /\ calls < MaxCacheCalls
  /\ LET r == toString(events[1])
     IN /\ events' = <<r.hlc>>
        /\ returned' = Append(returned, r.ret)
        /\ last' = Called(Nothing, op, Nothing, events[1], Nothing, r.ret)
  /\ calls' = calls + 1
  /\ UNCHANGED <<state, maxDrift, past>>

\* t.toString()
CallToString == CacheCall("toString")

\* serializeHLC(t)
CallSerializeHLC == CacheCall("serializeHLC")

NextCache == CallToString \/ CallSerializeHLC

SpecCache == InitCache /\ [][NextCache]_vars

-----------------------------------------------------------------------------
(* What the properties below read off the last call *)

IsCall == last # Nothing /\ last.op \in {"send", "receive"}

Succeeded == IsCall /\ last.ret.kind = "ok"

Failed == IsCall /\ last.ret.kind # "ok"

\* the remote timestamp a receive merged: its argument, decoded if a string
Decodes == IsCall /\ last.op = "receive" /\ toHLCTimestamp(last.arg).kind = "ok"

Merged == toHLCTimestamp(last.arg).t

\* (physicalTime, logicalCounter) of a timestamp
Pair(t) == <<t.ts, t.cl>>

\* max(now, state.physicalTime, remote.physicalTime) of the last receive
MaxPhysicalTime ==
  CHOOSE p \in {last.now, last.pre.ts, Merged.ts} :
    \A q \in {last.now, last.pre.ts, Merged.ts} : ~NumLt(p, q)

\* the physical time the last call proposed to the safety check
CandidatePhysicalTime ==
  IF last.op = "send"
    THEN (IF NumGt(last.now, last.pre.ts) THEN last.now ELSE last.pre.ts)
    ELSE MaxPhysicalTime

\* the counter the last call proposed to the safety check
CandidateCounter ==
  IF last.op = "send"
    THEN (IF NumGt(last.now, last.pre.ts) THEN 0 ELSE last.pre.cl + 1)
  ELSE IF last.pre.ts = MaxPhysicalTime /\ Merged.ts = MaxPhysicalTime
    THEN (IF last.pre.cl > Merged.cl THEN last.pre.cl ELSE Merged.cl) + 1
  ELSE IF last.pre.ts = MaxPhysicalTime THEN last.pre.cl + 1
  ELSE IF Merged.ts = MaxPhysicalTime THEN Merged.cl + 1
  ELSE 0

\* the fields are in range: 0 <= ts <= MAX_EPOCH, 0 <= cl <=
\* MAX_LOGICAL_CLOCK, id not empty
ValidFields(t) ==
  /\ ~NumLt(t.ts, Num(0)) /\ ~NumGt(t.ts, MAX_EPOCH)
  /\ t.cl >= 0 /\ t.cl <= MAX_LOGICAL_CLOCK
  /\ t.id # <<>>

\* the last call was op, made on the value type
Applies(op) == last # Nothing /\ last.op = op

\* (ts, cl) of a before, equal to, after (ts, cl) of b, as -1, 0, 1
PairOrder(a, b) ==
  IF NumLt(a.ts, b.ts) \/ (a.ts = b.ts /\ a.cl < b.cl) THEN 0 - 1
  ELSE IF a.ts = b.ts /\ a.cl = b.cl THEN 0
  ELSE 1

-----------------------------------------------------------------------------
(* Properties *)

\* C1 (SpecHist).  Monotonicity: on one instance, whatever the wall-clock
\* readings and remotes, and with failed calls in between, every timestamp
\* returned is >= every timestamp returned earlier, under compareHLCTimestamps.
C1_Monotonic ==
  \A n \in DOMAIN returned :
    \A i, j \in 1..Len(returned[n]) :
      i < j => compareHLCTimestamps(returned[n][j], returned[n][i]) >= 0

\* two timestamps were returned, a call failed, and the last call succeeded
\* although the wall clock read less than the state's physical time
C1_Witness ==
  /\ Succeeded
  /\ Len(returned[last.node]) = 2
  /\ calls = 3
  /\ NumLt(last.now, last.pre.ts)

\* C2 as claimed (SpecNet).  Causality: if event e happens-before event f
\* (program order of one instance, or the send and a receive of the same
\* timestamp, closed transitively, failed receives included in the chain) and
\* e and f both succeeded, then ts(e) compares -1 with ts(f).
C2_CausalityThroughFailures ==
  \A f \in 1..Len(events) :
    \A e \in events[f].hbAll :
      compareHLCTimestamps(events[e].t, events[f].t) = 0 - 1

\* C2 as amended (SpecNet).  Causality: if event e happens-before event f along
\* a chain of successful events (program order of one instance, or the send
\* and a successful receive of the same timestamp, closed transitively), then
\* ts(e) compares -1 with ts(f).
C2_Causality ==
  \A f \in 1..Len(events) :
    \A e \in events[f].hb :
      compareHLCTimestamps(events[e].t, events[f].t) = 0 - 1

\* an event of one instance with an event of the other instance in its past
\* that is not the timestamp it received: the chain has two steps
C2_Witness ==
  \E f \in 1..Len(events) :
    \E e \in events[f].hb, g \in events[f].hb :
      /\ events[e].node # events[f].node
      /\ events[g].node = events[f].node
      /\ e \in events[g].hb

\* C3 (Spec).  A successful receive returns a timestamp that compares 1 with
\* (is strictly greater than) the remote timestamp it merged.
C3_ReceiveAfterRemote ==
  (Succeeded /\ last.op = "receive") =>
    compareHLCTimestamps(last.ret.t, Merged) = 1

\* a receive that succeeded where the remote was ahead of both the wall
\* clock and the state
C3_Witness ==
  /\ Succeeded /\ last.op = "receive"
  /\ NumGt(Merged.ts, last.now)
  /\ NumGt(Merged.ts, last.pre.ts)

\* C4 (SpecHist).  A send or receive that fails (drift, counter overflow, or
\* a string remote that does not decode) leaves the state cell as it was; so
\* the state cell is always the last timestamp returned, once one was.
C4_StateUnchangedOnFailure ==
  /\ Failed => state[last.node] = last.pre
  /\ \A n \in DOMAIN returned :
       returned[n] # <<>> => state[n] = returned[n][Len(returned[n])]

\* a call failed after a timestamp was returned
C4_Witness ==
  /\ Failed
  /\ returned[last.node] # <<>>
  /\ state[last.node] = returned[last.node][1]

\* C5 (Spec).  A send that succeeds with a wall-clock reading <= the state's
\* physical time returns and commits (state.physicalTime, state.counter + 1).
C5_SameMillisecondSend ==
  (Succeeded /\ last.op = "send" /\ ~NumGt(last.now, last.pre.ts)) =>
    /\ Pair(last.ret.t) = <<last.pre.ts, last.pre.cl + 1>>
    /\ state[last.node] = last.ret.t

\* a send that succeeded with the wall clock behind the state
C5_Witness ==
  /\ Succeeded /\ last.op = "send"
  /\ NumLt(last.now, last.pre.ts)
  /\ last.pre.cl > 0

\* C6 (Spec).  A send with a wall-clock reading now strictly greater than the
\* state's physical time returns and commits (now, 0).
C6_AdvancingSend ==
  (IsCall /\ last.op = "send" /\ NumGt(last.now, last.pre.ts)) =>
    /\ last.ret.kind = "ok"
    /\ Pair(last.ret.t) = <<last.now, 0>>
    /\ state[last.node] = last.ret.t

\* an advancing send from a state whose counter was not 0
C6_Witness ==
  /\ Succeeded /\ last.op = "send"
  /\ NumGt(last.now, last.pre.ts)
  /\ last.pre.cl > 0

\* C7 (Spec).  The physical time of a successful receive is
\* max(now, state.physicalTime, remote.physicalTime).
C7_ReceivePhysicalTime ==
  (Succeeded /\ last.op = "receive") =>
    /\ last.ret.t.ts \in {last.now, last.pre.ts, Merged.ts}
    /\ ~NumLt(last.ret.t.ts, last.now)
    /\ ~NumLt(last.ret.t.ts, last.pre.ts)
    /\ ~NumLt(last.ret.t.ts, Merged.ts)

\* a receive that succeeded where the wall clock alone was the maximum
C7_Witness ==
  /\ Succeeded /\ last.op = "receive"
  /\ NumGt(last.now, last.pre.ts)
  /\ NumGt(last.now, Merged.ts)

\* C8 (Spec).  With P = max(now, state.physicalTime, remote.physicalTime), a
\* successful receive returns counter max(state.counter, remote.counter) + 1
\* if state and remote both have physical time P, state.counter + 1 if only
\* the state has, remote.counter + 1 if only the remote has, 0 if neither.
\* So local (1000,2), remote (1000,5), now <= 1000 gives (1000,6); local
\* (1000,0), remote (2000,5), now = 1000 gives (2000,6); local (1000,0),
\* remote (2000,0), now = 3000 gives (3000,0).
C8_ReceiveCounter ==
  (Succeeded /\ last.op = "receive") =>
    LET P      == MaxPhysicalTime
        local  == last.pre.ts = P
        remote == Merged.ts = P
        result == Pair(last.ret.t)
        case(l, r, nows) ==
          /\ Pair(last.pre) = <<Num(l[1]), l[2]>>
          /\ Pair(Merged) = <<Num(r[1]), r[2]>>
          /\ last.now \in nows
    IN /\ local /\ remote =>
            last.ret.t.cl = (IF last.pre.cl > Merged.cl THEN last.pre.cl ELSE Merged.cl) + 1
       /\ local /\ ~remote => last.ret.t.cl = last.pre.cl + 1
       /\ ~local /\ remote => last.ret.t.cl = Merged.cl + 1
       /\ ~local /\ ~remote => last.ret.t.cl = 0
       /\ case(<<1000, 2>>, <<1000, 5>>, {Num(0), Num(1000)}) => result = <<Num(1000), 6>>
       /\ case(<<1000, 0>>, <<2000, 5>>, {Num(1000)}) => result = <<Num(2000), 6>>
       /\ case(<<1000, 0>>, <<2000, 0>>, {Num(3000)}) => result = <<Num(3000), 0>>

\* local (1000,2) received remote (1000,5) with the wall clock behind
C8_Witness ==
  /\ Succeeded /\ last.op = "receive"
  /\ Pair(last.pre) = <<Num(1000), 2>>
  /\ Pair(Merged) = <<Num(1000), 5>>
  /\ last.now = Num(0)
  /\ Pair(last.ret.t) = <<Num(1000), 6>>

\* ids a remote timestamp may carry, the empty one and one with the
\* separator among them
RemoteIds == {IdA, IdB, <<"n", "o", "d", "e", "-", "2">>, <<>>, <<"a", "|", "b">>}

C10_WitnessBoundary ==
  /\ Succeeded
  /\ NumAbsDiff(last.now, CandidatePhysicalTime) = Num(maxDrift[last.node])

\* C11 (Spec).  A send or receive whose drift check passes fails with
\* LogicalCounterOverflow if and only if the candidate counter is >=
\* MAX_LOGICAL_CLOCK (10^8 - 1); the error carries max = MAX_LOGICAL_CLOCK and
\* current = the rejected candidate.  So a state or a remote with counter
\* MAX_LOGICAL_CLOCK whose counter the call would increment makes it fail.
C11_CounterOverflowCheck ==
  (IsCall /\ (last.op = "send" \/ Decodes)
     /\ ~NumGt(NumAbsDiff(last.now, CandidatePhysicalTime), Num(maxDrift[last.node]))) =>
    /\ last.ret.kind = "LogicalCounterOverflow" <=> CandidateCounter >= 99999999
    /\ last.ret.kind = "LogicalCounterOverflow" =>
         last.ret.max = MAX_LOGICAL_CLOCK /\ last.ret.current = CandidateCounter
    /\ last.ret.kind \in {"ok", "LogicalCounterOverflow"}
    /\ (last.op = "send" /\ last.pre.cl = MAX_LOGICAL_CLOCK
          /\ ~NumGt(last.now, last.pre.ts)) => last.ret.kind = "LogicalCounterOverflow"
    /\ (last.op = "receive" /\ Merged.cl = MAX_LOGICAL_CLOCK
          /\ Merged.ts = MaxPhysicalTime) => last.ret.kind = "LogicalCounterOverflow"

\* a send from a state with counter MAX_LOGICAL_CLOCK, the wall clock not
\* ahead of the state and within maxDrift of it, failed on the counter
C11_Witness ==
  /\ Failed /\ last.op = "send"
  /\ last.pre.cl = MAX_LOGICAL_CLOCK
  /\ last.ret = throwLogicalCounterOverflow(MAX_LOGICAL_CLOCK, MAX_LOGICAL_CLOCK + 1)
  /\ state[last.node] = last.pre

\* a receive of a remote with counter MAX_LOGICAL_CLOCK failed on the counter
C11_WitnessRemote ==
  /\ Failed /\ Decodes
  /\ Merged.cl = MAX_LOGICAL_CLOCK /\ last.pre.cl < MAX_LOGICAL_CLOCK - 1
  /\ last.ret.kind = "LogicalCounterOverflow"

\* a call was rejected with candidate counter MAX_LOGICAL_CLOCK exactly
C11_WitnessBoundary ==
  /\ Failed
  /\ last.ret = throwLogicalCounterOverflow(MAX_LOGICAL_CLOCK, MAX_LOGICAL_CLOCK)

\* C12 (Spec).  receive(remote) throws an error whenever the difference
\* between the local wall clock and the remote timestamp's physical time,
\* |now - remote.physicalTime|, exceeds maxDrift.
C12_DriftLocalRemote ==
  (Decodes /\ NumGt(NumAbsDiff(last.now, Merged.ts), Num(maxDrift[last.node]))) =>
    last.ret.kind # "ok"

\* C13 (SpecValue).  Round trip: for every timestamp t with 0 <= ts <=
\* MAX_EPOCH, 0 <= cl <= MAX_LOGICAL_CLOCK and any non-empty nodeId,
\* parseHLCTimestampStrict(serializeHLC(t)) succeeds and equals t field for
\* field.
C13_RoundTrip ==
  (Applies("serializeHLC") /\ ValidFields(last.arg)) =>
    parseHLCTimestampStrict(last.ret.t.str) = Return(last.arg)

\* C14 (SpecValue).  Canonical text: for every string s parseHLCTimestamp
\* accepts, serializeHLC(parseHLCTimestamp(s)) = s.
C14_CanonicalText ==
  (Applies("parseHLCTimestamp") /\ last.ret.kind = "ok") =>
    serializeHLC(last.ret.t) = last.arg.str

\* C15 (SpecValue).  Sortable encoding: for timestamps a, b with fields in
\* range that compareHLCTimestamps does not find equal, serializeHLC(a) and
\* serializeHLC(b) compare as strings the way a and b compare, whatever the
\* two nodeIds.
C15_SortableEncoding ==
  (Applies("compareHLCTimestamps") /\ ValidFields(last.arg.t1)
     /\ ValidFields(last.arg.t2) /\ last.ret.t # 0) =>
    StringCompare(serializeHLC(last.arg.t1), serializeHLC(last.arg.t2)) = last.ret.t

\* counters 5 and 10 at one physical time, the ids in the opposite order
C15_Witness ==
  /\ Applies("compareHLCTimestamps")
  /\ last.arg.t1 = createHLCTimestamp(Num(1000), 5, IdB)
  /\ last.arg.t2 = createHLCTimestamp(Num(1000), 10, IdA)
  /\ last.ret.t = 0 - 1

\* C16 (SpecValue).  compareHLCTimestamps(a, b) is -1, 0 or 1: it compares
\* the physical times and, when they are equal, the counters; the nodeIds are
\* not consulted, so equal (ts, cl) with different nodeIds compare as 0.
C16_CompareOrder ==
  Applies("compareHLCTimestamps") =>
    LET a == last.arg.t1
        b == last.arg.t2
    IN /\ last.ret.t \in {0 - 1, 0, 1}
       /\ last.ret.t = PairOrder(a, b)
       /\ \A ida \in ValueIds, idb \in ValueIds :
            compareHLCTimestamps(createHLCTimestamp(a.ts, a.cl, ida),
                                 createHLCTimestamp(b.ts, b.cl, idb)) = last.ret.t
       /\ (Pair(a) = Pair(b) /\ a.id # b.id) => last.ret.t = 0

\* Compare((1000,1,"a"), (1000,1,"b")) = 0
C16_Witness ==
  /\ Applies("compareHLCTimestamps")
  /\ last.arg.t1 = createHLCTimestamp(Num(1000), 1, IdA)
  /\ last.arg.t2 = createHLCTimestamp(Num(1000), 1, IdB)
  /\ last.ret.t = 0

\* C17 (SpecValue).  compareHLCTimestamps is a total preorder:
\* compare(a, a) = 0, compare(a, b) = -compare(b, a), and compare(a, b) <= 0
\* and compare(b, c) <= 0 imply compare(a, c) <= 0.
C17_TotalPreorder ==
  Applies("compareHLCTimestamps") =>
    LET a == last.arg.t1
        b == last.arg.t2
    IN /\ compareHLCTimestamps(a, a) = 0
       /\ last.ret.t = 0 - compareHLCTimestamps(b, a)
       /\ \A c \in OrderTimestamps :
            (last.ret.t <= 0 /\ compareHLCTimestamps(b, c) <= 0) =>
              compareHLCTimestamps(a, c) <= 0

\* a before b by the counter alone, and some c after b by the physical time
C17_Witness ==
  /\ Applies("compareHLCTimestamps")
  /\ last.ret.t = 0 - 1
  /\ last.arg.t1.ts = last.arg.t2.ts
  /\ \E c \in OrderTimestamps :
       /\ compareHLCTimestamps(last.arg.t2, c) = 0 - 1
       /\ NumLt(last.arg.t2.ts, c.ts) /\ c.cl < last.arg.t1.cl

C18_WitnessBoundary ==
  /\ Applies("parseHLCTimestampStrict")
  /\ last.ret.kind = "ok"
  /\ last.ret.t.cl = MAX_LOGICAL_CLOCK /\ last.ret.t.ts = MAX_EPOCH

\* C19 (SpecValue).  parseHLCTimestamp returns null exactly when
\* parseHLCTimestampStrict fails, returns a timestamp with the same ts, cl
\* and id when it succeeds, and never throws.
C19_LenientMirrorsStrict ==
  Applies("parseHLCTimestamp") =>
    LET strict == parseHLCTimestampStrict(last.arg.str)
    IN /\ last.ret.kind \in {"ok", "null"}
       /\ last.ret.kind = "null" <=> strict.kind # "ok"
       /\ strict.kind = "ok" =>
            /\ last.ret.kind = "ok"
            /\ last.ret.t.ts = strict.t.ts
            /\ last.ret.t.cl = strict.t.cl
            /\ last.ret.t.id = strict.t.id

\* null for a string of 3 fields whose counter field is no number
C19_Witness ==
  /\ Applies("parseHLCTimestamp")
  /\ last.ret.kind = "null"
  /\ parseHLCTimestampStrict(last.arg.str).kind = "TimestampParsingError"
  /\ parseHLCTimestampStrict(last.arg.str).message = "Invalid logical counter"

\* C20 (Spec).  receive(s) of a string s that decodes returns or throws, and
\* commits, what receive(parseHLCTimestampStrict(s)) does; for an s that does
\* not decode it throws the decoder's TimestampParsingError (it does not
\* return null) and commits nothing.
C20_ReceiveAcceptsString ==
  (IsCall /\ last.op = "receive" /\ IsString(last.arg)) =>
    LET decoded == parseHLCTimestampStrict(last.arg.str)
        byValue == receive(last.pre, last.now, decoded.t,
                           maxDrift[last.node], last.node)
    IN IF decoded.kind = "ok"
         THEN byValue.ret = last.ret /\ byValue.state = state[last.node]
         ELSE /\ last.ret.kind = "TimestampParsingError"
              /\ last.ret = decoded
              /\ state[last.node] = last.pre

\* a string was received and merged: the remote's counter 5 gave 6
C20_Witness ==
  /\ Succeeded /\ last.op = "receive" /\ IsString(last.arg)
  /\ Merged.cl = 5 /\ last.ret.t.cl = 6
  /\ state[last.node] = last.ret.t

\* a string that does not decode was received
C20_WitnessRejected ==
  /\ Failed /\ last.op = "receive" /\ IsString(last.arg)
  /\ last.ret.kind = "TimestampParsingError"
  /\ last.ret.message = "Invalid nodeId"

\* C24 (SpecNet).  Independent instances share no state: a send or receive
\* on one instance, successful or failing, leaves the state cell, the maxDrift
\* and the returned timestamps of every other instance as they were, under
\* every interleaving of calls on different instances.
C24_IndependentInstances ==
  [][\A m \in DOMAIN state :
       m # last'.node =>
         /\ state'[m] = state[m]
         /\ maxDrift'[m] = maxDrift[m]
         /\ returned'[m] = returned[m]]_vars

\* a call on one instance failed after the other instance had returned two
\* timestamps, the last of which is still its state
C24_Witness ==
  /\ Failed /\ last.node = IdB
  /\ Len(returned[IdA]) = 2
  /\ state[IdA] = returned[IdA][2]
  /\ state[IdB] # state[IdA]

\* C25 (Spec).  Every timestamp send or receive returns has a counter from
\* 0 to MAX_LOGICAL_CLOCK - 1, and its encoding renders the counter as
\* exactly 8 decimal digits.
C25_EmittedCounterRange ==
  Succeeded =>
    LET clStr == split(serializeHLC(last.ret.t))[2]
    IN /\ last.ret.t.cl >= 0
       /\ last.ret.t.cl <= 99999999 - 1
       /\ Len(clStr) = 8 /\ AllDigits(clStr)
       /\ DigitsValue(clStr) = last.ret.t.cl

\* a call returned the counter MAX_LOGICAL_CLOCK - 1, the last one emitted
C25_Witness ==
  /\ Succeeded
  /\ last.ret.t.cl = MAX_LOGICAL_CLOCK - 1
  /\ split(serializeHLC(last.ret.t))[2] = <<"9", "9", "9", "9", "9", "9", "9", "8">>

\* C28 (SpecHist).  Every successful send or receive returns a timestamp
\* that compares 1 with the state before the call; so any two timestamps an
\* instance returned differ in (physicalTime, logicalCounter), the later one
\* comparing greater.
C28_StrictIncrease ==
  /\ Succeeded => compareHLCTimestamps(last.ret.t, last.pre) = 1
  /\ \A n \in DOMAIN returned :
       \A i, j \in 1..Len(returned[n]) :
         i < j =>
           /\ compareHLCTimestamps(returned[n][j], returned[n][i]) = 1
           /\ Pair(returned[n][i]) # Pair(returned[n][j])

\* three timestamps returned at one physical time, the last by a receive of a
\* remote at that time with a smaller counter than the state's
C28_Witness ==
  /\ Succeeded /\ Decodes
  /\ Len(returned[last.node]) = 3
  /\ returned[last.node][1].ts = returned[last.node][3].ts
  /\ Merged.ts = last.pre.ts /\ Merged.cl < last.pre.cl

\* C22 (SpecCreate).  For every string initialTimestamp that
\* parseHLCTimestampStrict rejects, createHLC throws TimestampParsingError and
\* no clock instance is returned.
C22_UndecodableResumePoint ==
  (last.op = "createHLC" /\ "initialTimestamp" \in DOMAIN last.arg
     /\ IsString(last.arg.initialTimestamp)
     /\ parseHLCTimestampStrict(last.arg.initialTimestamp.str).kind # "ok") =>
    /\ last.ret.kind = "TimestampParsingError"
    /\ DOMAIN state = {}

\* the same outcome up to the nodeId: the same error, or timestamps with the
\* same physical time and counter, the second labelled with nodeId id
SameOutcome(rOriginal, rRestored, id) ==
  /\ rOriginal.kind = rRestored.kind
  /\ IF rRestored.kind = "ok"
       THEN Pair(rOriginal.t) = Pair(rRestored.t) /\ rRestored.t.id = id
       ELSE rOriginal = rRestored

C23_Bounds ==
  Succeeded =>
    LET t == last.ret.t
        n == last.node
    IN /\ compareHLCTimestamps(MIN_HLC_TIMESTAMP, t) <= 0
       /\ 0 <= compareHLCTimestamps(MAX_HLC_TIMESTAMP, t)
       /\ compareHLCTimestamps(MIN_TIMESTAMP(n), t) <= 0
       /\ 0 <= compareHLCTimestamps(MAX_TIMESTAMP(n), t)
       /\ serializeHLC(MIN_TIMESTAMP(n)) =
            <<"1", "9", "7", "0", "-", "0", "1", "-", "0", "1", "T", "0", "0", ":", "0", "0", ":", "0", "0", ".", "0", "0", "0", "Z">> \o <<"|">> \o <<"0", "0", "0", "0", "0", "0", "0", "0">> \o <<"|">> \o n
       /\ serializeHLC(MAX_TIMESTAMP(n)) =
            <<"9", "9", "9", "9", "-", "1", "2", "-", "3", "1", "T", "2", "3", ":", "5", "9", ":", "5", "9", ".", "9", "9", "9", "Z">> \o <<"|">> \o <<"9", "9", "9", "9", "9", "9", "9", "9">> \o <<"|">> \o n

\* the last millisecond of the range with the greatest counter a call returns
C23_Witness ==
  /\ Succeeded
  /\ last.ret.t.ts = MAX_EPOCH
  /\ last.ret.t.cl = MAX_LOGICAL_CLOCK - 1
  /\ compareHLCTimestamps(MAX_HLC_TIMESTAMP, last.ret.t) = 1
  /\ compareHLCTimestamps(MAX_TIMESTAMP(last.node), last.ret.t) = 1

\* the first millisecond of the range
C23_WitnessMin ==
  /\ Succeeded
  /\ last.ret.t.ts = Num(0)
  /\ compareHLCTimestamps(MIN_TIMESTAMP(last.node), last.ret.t) = -1

\* C26 (SpecRecover).  A send whose wall-clock reading is greater than the
\* state's physical time succeeds and returns (now, 0), whatever the state's
\* counter and whatever errors were thrown before; so in every reachable
\* state, after a LogicalCounterOverflow too, a send with any later reading
\* would succeed with (now, 0).
C26_Recovery ==
  /\ (IsCall /\ last.op = "send" /\ NumGt(last.now, last.pre.ts)) =>
       /\ last.ret = Return(createHLCTimestamp(last.now, 0, last.node))
       /\ state[last.node] = last.ret.t
  /\ \A n \in DOMAIN state, tsNow \in Times :
       NumGt(tsNow, state[n].ts) =>
         LET r == send(state[n], tsNow, maxDrift[n], n)
         IN /\ r.ret = Return(createHLCTimestamp(tsNow, 0, n))
            /\ r.state = r.ret.t

\* a send that failed with LogicalCounterOverflow at the stalled millisecond,
\* then a send with a later reading
C26_Witness ==
  /\ Succeeded /\ last.op = "send"
  /\ NumGt(last.now, last.pre.ts)
  /\ last.pre.cl = MAX_LOGICAL_CLOCK - 1
  /\ "LogicalCounterOverflow" \in past[last.node]
  /\ Pair(last.ret.t) = <<last.now, 0>>

\* C27 (SpecHeap).  A returned timestamp is independent of the instance:
\* (a) a send or receive changes no field of any timestamp returned before, and
\* (b) a caller's write to a timestamp it was handed leaves the value of the
\* instance's state cell as it was.
C27_ReturnedIndependent ==
  [][/\ last'.op \in {"send", "receive"} =>
          \A n \in DOMAIN returned : \A i \in 1..Len(returned[n]) :
            events'[returned[n][i]] = events[returned[n][i]]
     /\ last'.op = "write" =>
          \A n \in DOMAIN state : events'[state'[n]] = events[state[n]]]_vars

\* C29 (SpecRace).  As long as no two calls on an instance have overlapped
\* between reading the state cell and assigning it, every timestamp the
\* instance returns is greater than every timestamp it returned before; the
\* witness is an interleaving with an overlap in which two calls return the
\* same (physicalTime, logicalCounter).
C29_SerializedCalls ==
  \A n \in DOMAIN state :
    past[n] = {} =>
      \A i, j \in 1..Len(returned[n]) :
        i < j => compareHLCTimestamps(returned[n][j], returned[n][i]) = 1

\* two overlapping calls returned the same pair
C29_Witness ==
  \E n \in DOMAIN state :
    /\ past[n] = {"overlap"}
    /\ \E i, j \in 1..Len(returned[n]) :
         i < j /\ Pair(returned[n][i]) = Pair(returned[n][j])

\* after an overlap the later assignment is below the earlier one
C29_WitnessBackwards ==
  \E n \in DOMAIN state :
    /\ past[n] = {"overlap"}
    /\ Len(returned[n]) >= 2
    /\ compareHLCTimestamps(returned[n][Len(returned[n])],
                            returned[n][Len(returned[n]) - 1]) = -1
    /\ state[n] = returned[n][Len(returned[n])]

\* C30 (SpecSteps).  Every send and every receive calls getWallClockTime
\* exactly once; when a call was made from inside the callback and both it and
\* the outer call returned a timestamp, the outer one is the greater; and
\* createHLC calls getWallClockTime once when no initialTimestamp is given and
\* not at all when one is given.
C30_WallClockReads ==
  /\ IsCall =>
       /\ past.reads = 1
       /\ (past.inner # Nothing /\ past.inner.kind = "ok" /\ last.ret.kind = "ok") =>
            compareHLCTimestamps(last.ret.t, past.inner.t) = 1
  /\ last.op = "createHLC" =>
       past.reads = IF "initialTimestamp" \in DOMAIN last.arg THEN 0 ELSE 1

\* the instance was constructed without initialTimestamp
Fresh(n) == "initialTimestamp" \notin DOMAIN past[n].options

\* what C31 says apart from the first send: the state cell of a fresh clock
\* starts at (wall clock at construction, 0), and no call returns that pair
SeedNeverReturned(n) ==
  /\ past[n].state = createHLCTimestamp(past[n].now, 0, n)
  /\ calls = 0 => state[n] = past[n].state
  /\ \A i \in 1..Len(returned[n]) :
       /\ Pair(returned[n][i]) # Pair(past[n].state)
       /\ compareHLCTimestamps(returned[n][i], past[n].state) = 1

\* the call that ended last is the first call on the instance and is a send
FirstSend == IsCall /\ calls = 1 /\ last.op = "send"

\* C31 (SpecSeed), amended.  Without initialTimestamp the state starts at
\* (t0, 0), t0 the wall clock at construction, and that pair is never
\* returned; the first send returns (now, 0) if now > t0, returns (t0, 1) if
\* t0 - maxDrift <= now <= t0, and throws ClockDriftOverflow if
\* now < t0 - maxDrift.
C31_FreshSeed ==
  \A n \in DOMAIN state :
    Fresh(n) =>
      /\ SeedNeverReturned(n)
      /\ (FirstSend /\ last.node = n) =>
           IF NumGt(last.now, past[n].now)
             THEN last.ret = Return(createHLCTimestamp(last.now, 0, n))
           ELSE IF NumGt(NumSub(past[n].now, last.now), Num(maxDrift[n]))
             THEN last.ret.kind = "ClockDriftOverflow" /\ state[n] = past[n].state
           ELSE last.ret = Return(createHLCTimestamp(past[n].now, 1, n))

\* C31 (SpecSeed), as stated.  ... the first send returns (t0, 1) if the
\* wall clock has not advanced past t0, and (now, 0) if it has.
C31_FreshSeedAsStated ==
  \A n \in DOMAIN state :
    Fresh(n) =>
      /\ SeedNeverReturned(n)
      /\ (FirstSend /\ last.node = n) =>
           IF NumGt(last.now, past[n].now)
             THEN last.ret = Return(createHLCTimestamp(last.now, 0, n))
           ELSE last.ret = Return(createHLCTimestamp(past[n].now, 1, n))

\* a first send at the construction reading, then one more returned
\* timestamp
C31_Witness ==
  /\ Fresh(IdA)
  /\ Len(returned[IdA]) = 2
  /\ returned[IdA][1] = createHLCTimestamp(past[IdA].now, 1, IdA)
  /\ past[IdA].state = createHLCTimestamp(past[IdA].now, 0, IdA)

\* a first send after the wall clock went back by more than maxDrift
C31_WitnessRegressed ==
  /\ Fresh(IdA) /\ FirstSend
  /\ last.ret.kind = "ClockDriftOverflow"
  /\ NumLt(last.now, past[IdA].now)

\* a first send after the wall clock advanced
C31_WitnessAdvanced ==
  /\ Fresh(IdA) /\ FirstSend
  /\ NumGt(last.now, past[IdA].now)
  /\ Pair(last.ret.t) = <<last.now, 0>>

\* the candidate of the last call fails both safety checks
FailsBothChecks ==
  /\ IsCall /\ (last.op = "send" \/ Decodes)
  /\ NumGt(NumAbsDiff(last.now, CandidatePhysicalTime), Num(maxDrift[last.node]))
  /\ CandidateCounter >= 99999999

\* C32 (Spec).  When the candidate of a call is further than maxDrift from
\* the wall clock and its counter is MAX_LOGICAL_CLOCK or more, the call
\* fails with ClockDriftOverflow, not LogicalCounterOverflow.
C32_DriftCheckedFirst ==
  FailsBothChecks =>
    /\ last.ret.kind = "ClockDriftOverflow"
    /\ last.ret.drift = NumAbsDiff(last.now, CandidatePhysicalTime)
    /\ state[last.node] = last.pre

\* a receive of a remote ahead of the wall clock by more than maxDrift whose
\* counter is at the end of the range
C32_Witness ==
  /\ FailsBothChecks
  /\ last.op = "receive"
  /\ Merged.cl = MAX_LOGICAL_CLOCK
  /\ Merged.ts = MaxPhysicalTime

\* a send from a state ahead of the wall clock by more than maxDrift whose
\* counter is at the end of the range
C32_WitnessSend ==
  /\ FailsBothChecks
  /\ last.op = "send"

\* the rules a string of 3 fields breaks
BadDate(parts) ==
  LET date == DateParse(parts[1])
  IN date.nan \/ NumLt(date.v, Num(0)) \/ NumGt(date.v, MAX_EPOCH)

BadCounter(parts) ==
  LET counter == parseInt(parts[2])
  IN counter.nan \/ counter.v < 0 \/ counter.v > 99999999

\* C33 (SpecValue).  A failure of parseHLCTimestampStrict carries the input
\* string and one message: the one for the wrong field count if the string
\* has not 3 fields, else the one for the nodeId if that is empty, else the
\* one for the date if that is bad, else the one for the counter.
C33_ReasonPrecedence ==
  (Applies("parseHLCTimestampStrict") /\ last.ret.kind # "ok") =>
    LET s     == last.arg.str
        parts == split(s)
    IN /\ last.ret.kind = "TimestampParsingError"
       /\ last.ret.input = s
       /\ last.ret.message =
            IF Len(parts) # 3
              THEN "Invalid format, expected ISO8601|logicalCounter|nodeId"
            ELSE IF parts[3] = <<>> THEN "Invalid nodeId"
            ELSE IF BadDate(parts) THEN "Invalid timestamp"
            ELSE "Invalid logical counter"
       /\ (Len(parts) = 3 /\ parts[3] # <<>> /\ ~BadDate(parts)) => BadCounter(parts)

\* a string with a bad date and a bad counter reports the date
C33_Witness ==
  /\ Applies("parseHLCTimestampStrict")
  /\ Len(split(last.arg.str)) = 3
  /\ split(last.arg.str)[3] # <<>>
  /\ BadDate(split(last.arg.str)) /\ BadCounter(split(last.arg.str))
  /\ last.ret.message = "Invalid timestamp"

\* a string with an empty nodeId, a bad date and a bad counter reports the
\* nodeId
C33_WitnessNodeId ==
  /\ Applies("parseHLCTimestampStrict")
  /\ Len(split(last.arg.str)) = 3
  /\ split(last.arg.str)[3] = <<>>
  /\ BadDate(split(last.arg.str)) /\ BadCounter(split(last.arg.str))
  /\ last.ret.message = "Invalid nodeId"

\* C34 (Spec).  Every timestamp returned by send or receive has
\* now <= physicalTime <= now + maxDrift, now being the wall-clock reading of
\* that call, and it is the state the call commits.
C34_BoundedDivergence ==
  Succeeded =>
    /\ ~NumLt(last.ret.t.ts, last.now)
    /\ ~NumGt(NumSub(last.ret.t.ts, last.now), Num(maxDrift[last.node]))
    /\ state[last.node] = last.ret.t

\* a timestamp exactly maxDrift ahead of the wall-clock reading
C34_Witness ==
  /\ Succeeded
  /\ maxDrift[last.node] = 1000
  /\ NumSub(last.ret.t.ts, last.now) = Num(1000)

\* a timestamp at the wall-clock reading, the state having been behind
C34_WitnessNow ==
  /\ Succeeded
  /\ last.ret.t.ts = last.now
  /\ NumLt(last.pre.ts, last.now)

\* the remote of the last receive is behind the wall clock or the state
RemoteInPast ==
  /\ Decodes
  /\ NumLt(Merged.ts, NumMax(last.now, last.pre.ts))

C35_WitnessFailed ==
  /\ RemoteInPast /\ Failed
  /\ last.ret.kind = "LogicalCounterOverflow"

\* a remote in the past, and the receive failed on the drift of the state
C35_WitnessDrift ==
  /\ RemoteInPast /\ Failed
  /\ last.ret.kind = "ClockDriftOverflow"

\* C36 (SpecMono).  With a wall clock that never goes back and no
\* initialTimestamp, no send fails with ClockDriftOverflow, and in every
\* reachable state a send with any reading the clock can still give would
\* not: the state is never more than maxDrift ahead of the latest reading.
C36_SendNeverDrifts ==
  \A n \in DOMAIN state :
    Fresh(n) =>
      /\ (IsCall /\ last.op = "send" /\ last.node = n) =>
           last.ret.kind # "ClockDriftOverflow"
      /\ \A tsNow \in LaterTimes(n) :
           send(state[n], tsNow, maxDrift[n], n).ret.kind # "ClockDriftOverflow"
      /\ ~NumGt(state[n].ts, past[n].clock) \/
           ~NumGt(NumSub(state[n].ts, past[n].clock), Num(maxDrift[n]))

\* a send that succeeded from a state exactly maxDrift ahead of the wall
\* clock, where a receive had pulled it
C36_Witness ==
  /\ Fresh(IdA)
  /\ Succeeded /\ last.op = "send"
  /\ maxDrift[IdA] = 1000
  /\ NumGt(last.pre.ts, last.now)
  /\ NumSub(last.pre.ts, last.now) = Num(1000)

\* with a resume point in the future send does fail on the drift
C36_WitnessResumed ==
  /\ ~Fresh(IdA)
  /\ Failed /\ last.op = "send"
  /\ last.ret.kind = "ClockDriftOverflow"

\* at the last call the state was ahead of the wall-clock reading by more
\* than maxDrift
StalledAhead ==
  /\ IsCall
  /\ NumGt(last.pre.ts, last.now)
  /\ NumGt(NumSub(last.pre.ts, last.now), Num(maxDrift[last.node]))

\* C37 (Spec), amended.  While state.physicalTime - now > maxDrift, every
\* send and every receive of a remote that decodes fails with
\* ClockDriftOverflow, a receive of a string that does not decode fails with
\* TimestampParsingError, and the state is unchanged; once the reading is at
\* least state.physicalTime - maxDrift, send does not fail on the drift.
C37_StalledAhead ==
  /\ StalledAhead =>
       /\ last.ret.kind =
            IF last.op = "receive" /\ ~Decodes THEN "TimestampParsingError"
            ELSE "ClockDriftOverflow"
       /\ state[last.node] = last.pre
  /\ (IsCall /\ last.op = "send" /\ ~StalledAhead) =>
       last.ret.kind # "ClockDriftOverflow"

\* C37 (Spec), as stated.  While state.physicalTime - now > maxDrift, every
\* send and every receive, for any remote, fails with ClockDriftOverflow and
\* leaves the state unchanged.
C37_StalledAheadAsStated ==
  /\ StalledAhead =>
       /\ last.ret.kind = "ClockDriftOverflow"
       /\ state[last.node] = last.pre
  /\ (IsCall /\ last.op = "send" /\ ~StalledAhead) =>
       last.ret.kind # "ClockDriftOverflow"

\* the second call on an instance finds the state stalled ahead, and a
\* receive of a remote in the past fails on the drift
C37_Witness ==
  /\ StalledAhead /\ Decodes
  /\ calls = 2
  /\ NumLt(Merged.ts, last.now)
  /\ last.ret.kind = "ClockDriftOverflow"

\* a send exactly maxDrift behind the state passes the drift check
C37_WitnessReached ==
  /\ Succeeded /\ last.op = "send"
  /\ NumGt(last.pre.ts, last.now)
  /\ NumSub(last.pre.ts, last.now) = Num(maxDrift[last.node])

\* a receive of a string that does not decode, the state stalled ahead
C37_WitnessUndecodable ==
  /\ StalledAhead /\ last.op = "receive" /\ ~Decodes
  /\ last.ret.kind = "TimestampParsingError"

\* C38 (SpecCache).  Every string that toString() and serializeHLC return
\* for a timestamp is serialize(ts, cl, id) of its three fields, the first
\* call and the calls answered from the cache alike.
C38_PureEncoding ==
  LET hlc == events[1]
  IN /\ \A i \in 1..Len(returned) :
          returned[i] = serialize(hlc.ts, hlc.cl, hlc.id)
     /\ \A i, j \in 1..Len(returned) : returned[i] = returned[j]
     /\ hlc.strCache # Nothing => hlc.strCache = serialize(hlc.ts, hlc.cl, hlc.id)
     /\ calls > 0 => last.ret = serializeHLC(createHLCTimestamp(hlc.ts, hlc.cl, hlc.id))

\* serializeHLC answered from the cache that toString filled, on a timestamp
\* whose nodeId contains the separator
C38_Witness ==
  /\ Len(returned) = 3
  /\ last.op = "serializeHLC"
  /\ last.arg.strCache = returned[1]
  /\ events[1].id = <<"a", "|", "b">>
  /\ events[1].cl = MAX_LOGICAL_CLOCK - 1

====
